---------------------------- MODULE Spec2Model ----------------------------
(***************************************************************************)
(* Single transferable vote as computed by Election.compute_results of     *)
(* election.py (CMU-Senate/fair-ranked-voting).                            *)
(*                                                                         *)
(* Python objects that are mutated in place (Ballot) live in a heap, a     *)
(* function from references to ballot values, so that sharing between the  *)
(* caller's ballots, the election's working copies and the copies of the   *)
(* forward tie-break is explicit.  Vote values are Python floats in the    *)
(* source; here they are exact fractions <<numerator, denominator>> in     *)
(* lowest terms, so the model describes the arithmetic the floats          *)
(* approximate.  A Candidate is represented by its uid, the sequence of    *)
(* the uid's characters (Candidate.__eq__ and __hash__ use the uid only).  *)
(***************************************************************************)
EXTENDS Integers, Sequences, FiniteSets, TLC

\* ------------------------------------------------------------------ bounds
MaxBallots == 3     \* ballots handed to the Election
MaxVotes == 3       \* sum of the vote values of the ballots handed to the Election
MaxRank == 2        \* candidates ranked on one ballot
MaxSeats == 3       \* seats of the Election
MaxFairBallots == 2 \* ballots handed to the Election where termination is checked
MaxCast == 2        \* votes cast into a VoteTracker used on its own
MaxString == 4      \* characters of a tie-break string where the sort is checked
MaxStvBallots == 3  \* ballots of an Election of stv_compute.py
MaxStvRank == 2     \* candidates ranked on a ballot of stv_compute.py
MaxStvSeats == 3    \* seats of an Election of stv_compute.py

\* -------------------------------------------------------------- candidates
None == <<"None">>
NoConfidence == <<"N", "C">>
Candidates == {<<"A">>, <<"B">>, <<"A", "B">>, NoConfidence}

\* isinstance(candidate, NoConfidence)
IsNoConfidence(candidate) == candidate = NoConfidence

\* ----------------------------------------------------------------- values
\* The element of a set of one element.  In {e(x) : x \in {v}} the value v is
\* computed once, however often e refers to it.
The(S) == CHOOSE x \in S : TRUE

\* ------------------------------------------------------------- arithmetic
RECURSIVE Gcd(_, _)
Gcd(a, b) == IF b = 0 THEN a ELSE Gcd(b, a % b)

Abs(n) == IF n < 0 THEN -n ELSE n

\* The fraction n/d (d # 0) in lowest terms with a positive denominator.
Frac(n, d) ==
    The({<<(s * n) \div g, (s * d) \div g>> :
            s \in {IF d < 0 THEN -1 ELSE 1}, g \in {Gcd(Abs(n), Abs(d))}})

Num(n) == <<n, 1>>
Plus(x, y) ==
    The({Frac(a[1] * b[2] + b[1] * a[2], a[2] * b[2]) : a \in {x}, b \in {y}})
Minus(x, y) ==
    The({Frac(a[1] * b[2] - b[1] * a[2], a[2] * b[2]) : a \in {x}, b \in {y}})
Times(x, y) ==
    The({Frac(a[1] * b[1], a[2] * b[2]) : a \in {x}, b \in {y}})
Over(x, y) ==
    The({Frac(a[1] * b[2], a[2] * b[1]) : a \in {x}, b \in {y}})
Leq(x, y) == \E a \in {x}, b \in {y} : a[1] * b[2] <= b[1] * a[2]
Less(x, y) == \E a \in {x}, b \in {y} : a[1] * b[2] < b[1] * a[2]

\* ------------------------------------------------------------------ lists
Range(s) == {s[i] : i \in 1..Len(s)}

\* s without its element at index i
RemoveAt(s, i) == [j \in 1..(Len(s) - 1) |-> IF j < i THEN s[j] ELSE s[j + 1]]

\* The orders in which a Python set S may be iterated.
RECURSIVE Orders(_)
Orders(S) ==
    IF S = {} THEN {<<>>}
    ELSE UNION {{<<x>> \o order : order \in Orders(S \ {x})} : x \in S}

\* One fixed iteration order of S.
RECURSIVE IterationOrder(_)
IterationOrder(S) ==
    IF S = {} THEN <<>>
    ELSE LET x == CHOOSE y \in S : TRUE IN <<x>> \o IterationOrder(S \ {x})

\* ----------------------------------------------------------------- Ballot
Ballot(candidates, starting_rank, vote_value) ==
    [candidates |-> candidates, vote_value |-> vote_value,
     preferred_active_rank |-> starting_rank]

candidate_for_rank(ballot, rank) ==
    IF 0 <= rank /\ rank < Len(ballot.candidates)
    THEN ballot.candidates[rank + 1]
    ELSE None

preferred_active_candidate(ballot) ==
    candidate_for_rank(ballot, ballot.preferred_active_rank)

\* Faulty variant of eliminate_preferred_candidate: the rank is raised also
\* when the ballot has no active preference.
AdvanceAlways(ballot) == [ballot EXCEPT !.preferred_active_rank = @ + 1]

eliminate_preferred_candidate(ballot) ==
    IF preferred_active_candidate(ballot) = None
    THEN ballot
    ELSE [ballot EXCEPT !.preferred_active_rank = @ + 1]

\* What eliminate_preferred_candidate prints: its error message, or nothing.
EliminatePrinted(ballot) ==
    IF preferred_active_candidate(ballot) = None
    THEN "Ballot Error: This ballot has no active candidates."
    ELSE ""

\* ------------------------------------------------------------ VoteTracker
VoteTracker == [votes_cast |-> Num(0), votes_for_candidate |-> <<>>]

TrackerCandidates(vote_tracker) == DOMAIN vote_tracker.votes_for_candidate

\* Faulty variant of cast_vote_for_candidate: a negative vote is cast like
\* any other.
CastUnchecked(vote_tracker, candidate, vote_value) ==
    IF candidate = None THEN vote_tracker
    ELSE [votes_cast |-> Plus(vote_tracker.votes_cast, vote_value),
          votes_for_candidate |->
              [c \in TrackerCandidates(vote_tracker) \cup {candidate} |->
                  IF c = candidate
                  THEN Plus(IF c \in TrackerCandidates(vote_tracker)
                            THEN vote_tracker.votes_for_candidate[c] ELSE Num(0),
                            vote_value)
                  ELSE vote_tracker.votes_for_candidate[c]]]

\* Faulty variant of cast_vote_for_candidate: the vote is added to the
\* candidate's votes and not to votes_cast.
CastUncounted(vote_tracker, candidate, vote_value) ==
    IF candidate = None \/ Less(vote_value, Num(0)) THEN vote_tracker
    ELSE [votes_cast |-> vote_tracker.votes_cast,
          votes_for_candidate |->
              [c \in TrackerCandidates(vote_tracker) \cup {candidate} |->
                  IF c = candidate
                  THEN Plus(IF c \in TrackerCandidates(vote_tracker)
                            THEN vote_tracker.votes_for_candidate[c] ELSE Num(0),
                            vote_value)
                  ELSE vote_tracker.votes_for_candidate[c]]]

cast_vote_for_candidate(vote_tracker, candidate, vote_value) ==
    IF candidate = None THEN vote_tracker
    ELSE IF Less(vote_value, Num(0)) THEN vote_tracker
    ELSE LET old == IF candidate \in TrackerCandidates(vote_tracker)
                    THEN vote_tracker.votes_for_candidate[candidate]
                    ELSE Num(0)
         IN  [votes_cast |-> Plus(vote_tracker.votes_cast, vote_value),
              votes_for_candidate |->
                  [c \in TrackerCandidates(vote_tracker) \cup {candidate} |->
                      IF c = candidate THEN Plus(old, vote_value)
                      ELSE vote_tracker.votes_for_candidate[c]]]

\* What cast_vote_for_candidate prints: its error message, or nothing.
CastPrinted(candidate, vote_value) ==
    IF candidate = None
    THEN "VoteTracker Error: Cannot cast vote for candidate None"
    ELSE IF Less(vote_value, Num(0))
    THEN "VoteTracker Error: Cannot cast negative vote"
    ELSE ""

votes_for_candidate(vote_tracker, candidate) ==
    IF candidate \in TrackerCandidates(vote_tracker)
    THEN vote_tracker.votes_for_candidate[candidate]
    ELSE Num(0)

\* Faulty variant of candidates_reaching_threshold: the votes must exceed
\* the threshold.
CandidatesAboveThreshold(vote_tracker, candidates, threshold) ==
    {candidate \in candidates :
        Less(threshold, votes_for_candidate(vote_tracker, candidate))}

\* Faulty variant of candidates_reaching_threshold: the votes are not compared.
EveryCandidate(vote_tracker, candidates, threshold) == candidates

candidates_reaching_threshold(vote_tracker, candidates, threshold) ==
    {candidate \in candidates :
        Leq(threshold, votes_for_candidate(vote_tracker, candidate))}

\* The loop of candidates_with_fewest_votes over the candidates in the order
\* `order`; acc is <<candidates_with_fewest_votes, fewest_votes>>.
RECURSIVE FewestVotesLoop(_, _, _, _)
FewestVotesLoop(vote_tracker, order, i, acc) ==
    IF i > Len(order) THEN acc[1]
    ELSE LET candidate == order[i]
             is_fewest_votes_unset == acc[2] = Num(-1)
             candidate_votes == votes_for_candidate(vote_tracker, candidate)
         IN  The({FewestVotesLoop(vote_tracker, order, i + 1, next) :
                     next \in {IF Leq(candidate_votes, acc[2]) \/ is_fewest_votes_unset
                               THEN IF Less(candidate_votes, acc[2])
                                       \/ is_fewest_votes_unset
                                    THEN <<{candidate}, candidate_votes>>
                                    ELSE <<acc[1] \cup {candidate}, acc[2]>>
                               ELSE acc}})

\* Faulty variant of candidates_with_fewest_votes: a later candidate with
\* the fewest votes so far does not join the set.
RECURSIVE FirstOfFewest(_, _)
FirstOfFewest(vote_tracker, order) ==
    IF order = <<>> THEN {}
    ELSE LET rest == FirstOfFewest(vote_tracker, Tail(order))
         IN  IF rest # {}
                /\ \A c \in rest : Leq(votes_for_candidate(vote_tracker, c),
                                        votes_for_candidate(vote_tracker, Head(order)))
             THEN rest
             ELSE {Head(order)}

\* Faulty variant of candidates_with_fewest_votes: it finds no candidate.
NoCandidates(vote_tracker, order) == {}

\* candidates_with_fewest_votes(candidates), the set `candidates` being
\* iterated in the order `order`.
candidates_with_fewest_votes(vote_tracker, order) ==
    FewestVotesLoop(vote_tracker, order, 1, <<{}, Num(-1)>>)

\* Faulty variant of FewestVotes: any one of the candidates is returned.
AnyCandidate(vote_tracker, candidates) == {{candidate} : candidate \in candidates}

\* The sets candidates_with_fewest_votes(candidates) may return, one for each
\* order the set may be iterated in.
FewestVotes(vote_tracker, candidates) ==
    {candidates_with_fewest_votes(vote_tracker, order) : order \in Orders(candidates)}

\* --------------------------------------------------------- ElectionRound
ElectionRound(vote_tracker) ==
    [threshold |-> Num(0), candidates_elected |-> {},
     candidates_eliminated |-> {}, random_tiebreak_occurred |-> FALSE,
     vote_tracker |-> vote_tracker]

\* ------------------------------------------------------------------ state
VARIABLES
    self,                       \* the Election: ballots (references), seats, flags
    heap,                       \* reference -> Ballot value
    given,                      \* the ballots as handed to Election.__init__
    pc,                         \* position in compute_results
    tiebreak_alphanumeric,
    election_rounds,
    ballots_active,
    ballots_exhausted,
    candidates_elected,
    candidates_eliminated,
    ballots_for_candidate,
    ballots_to_exhaust,
    candidates_to_eliminate,
    random_tiebreak_occurred,
    ballots_active_tiebreak,
    ballots_exhausted_tiebreak,
    standalone,                 \* a VoteTracker used on its own
    call,                       \* the last call of a method of standalone
    stv,                        \* the Election of stv_compute.py and the
                                \* position of its compute_winners
    counter,                    \* the Election_Counter of compute_winners
    declaring                   \* the locals of the declare_winner or
                                \* declare_loser in progress

vars == <<self, heap, given, pc, tiebreak_alphanumeric, election_rounds,
          ballots_active, ballots_exhausted, candidates_elected,
          candidates_eliminated, ballots_for_candidate, ballots_to_exhaust,
          candidates_to_eliminate, random_tiebreak_occurred,
          ballots_active_tiebreak, ballots_exhausted_tiebreak, standalone, call,
          stv, counter, declaring>>

\* The state of an Election and of its compute_results.
election == <<self, heap, given, pc, tiebreak_alphanumeric, election_rounds,
              ballots_active, ballots_exhausted, candidates_elected,
              candidates_eliminated, ballots_for_candidate, ballots_to_exhaust,
              candidates_to_eliminate, random_tiebreak_occurred,
              ballots_active_tiebreak, ballots_exhausted_tiebreak>>

\* The state of an Election of stv_compute.py and of its compute_winners.
older == <<stv, counter, declaring>>

\* Ballot.NO_CONFIDENCE of stv_compute.py, where candidates are strings.
NO_CONFIDENCE == "No Confidence"

\* Python's None where a candidate of stv_compute.py is expected.
NoCandidate == "None"

\* Election_Counter() (stv_compute.py lines 120-137): round 0, no winners
\* or losers, an empty dict of votes for round 0, no ballots assigned.
\* A dict is a function on its keys; the votes of round r are at r + 1.
Election_Counter ==
    [voting_round |-> 0, winning_candidates |-> {}, losing_candidates |-> {},
     votes_for_candidate_per_round |-> <<<<>>>>, ballots_for_candidate |-> <<>>]

\* No Election of stv_compute.py has been constructed yet.
NoElection == [pc |-> "new", seats |-> 0, ballots |-> <<>>, quota |-> Num(0)]

\* No declare_winner or declare_loser is in progress.
NoDeclaring ==
    [winners_for_round |-> {}, kind |-> "none", candidate_ballots |-> <<>>,
     updated_ballot |-> <<>>, surplus_multiplier |-> Num(1)]

\* The locals of the elimination step and of the forward tie-break.
elimination_locals == <<candidates_to_eliminate, random_tiebreak_occurred,
                        ballots_active_tiebreak, ballots_exhausted_tiebreak>>

\* ----------------------------------------------------------------- inputs
\* The rankings a ballot may carry: no candidate twice, at most MaxRank long.
Rankings ==
    UNION {{r \in [1..n -> Candidates] : \A i, j \in 1..n : i # j => r[i] # r[j]} :
           n \in 0..MaxRank}

RankingOrder == IterationOrder(Rankings)

\* The ballots of one ranking and a whole vote value of at most v, in a
\* fixed order.
RECURSIVE BallotsUpTo(_)
BallotsUpTo(v) ==
    IF v = 0 THEN <<>>
    ELSE BallotsUpTo(v - 1)
             \o [i \in 1..Len(RankingOrder) |-> Ballot(RankingOrder[i], 0, Num(v))]

BallotTypes == BallotsUpTo(MaxVotes)

\* The lists of at most `longest` ballots with `votes` votes in all, each
\* ballot of BallotTypes[first] or later in BallotTypes: one list per
\* multiset of ballots.
RECURSIVE BallotLists(_, _, _)
BallotLists(longest, votes, first) ==
    {<<>>} \cup
    (IF longest = 0 THEN {}
     ELSE UNION {{<<BallotTypes[k]>> \o rest :
                     rest \in BallotLists(longest - 1,
                                          votes - BallotTypes[k].vote_value[1], k)} :
                 k \in {j \in first..Len(BallotTypes) :
                           BallotTypes[j].vote_value[1] <= votes}})

\* The ballots handed to Election.__init__: at most MaxBallots ballots with
\* whole vote values of at least 1 and at most MaxVotes votes in all.
GivenBallots == BallotLists(MaxBallots, MaxVotes, 1)

\* n ballots of one ranking, each of vote value 1.
Repeat(candidates, n) == [i \in 1..n |-> Ballot(candidates, 0, Num(1))]

\* The elections of test_1_candidate_1_seat (10 * [A]), of
\* test_2_candidates_1_seat (5 * [A, B] and 10 * [B, A]) and of
\* test_3_candidates_1_seat (5 * [A, C], 10 * [B] and 7 * [C], the candidate
\* of uid "AB" standing for C).
ScenarioBallots ==
    {Repeat(<<<<"A">>>>, 10),
     Repeat(<<<<"A">>, <<"B">>>>, 5) \o Repeat(<<<<"B">>, <<"A">>>>, 10),
     Repeat(<<<<"A">>, <<"A", "B">>>>, 5) \o Repeat(<<<<"B">>>>, 10)
         \o Repeat(<<<<"A", "B">>>>, 7)}

\* Three ballots of vote value 1 for three candidates, the third ballot
\* ranking all three: [a], [b] and [c, a, b].
ThreeRanked ==
    {Repeat(<<t[1]>>, 1) \o Repeat(<<t[2]>>, 1) \o Repeat(<<t[3], t[1], t[2]>>, 1) :
        t \in {u \in Candidates \X Candidates \X Candidates :
                  u[1] # u[2] /\ u[1] # u[3] /\ u[2] # u[3]}}

\* Ballot.__init__ takes any list of candidates: a ballot [a, a] beside a
\* ballot [b], and a ballot [a, b, a] beside a ballot [b, a].
DuplicateRanked ==
    {Repeat(<<t[1], t[1]>>, 1) \o Repeat(<<t[2]>>, 1) : t \in Candidates \X Candidates}
    \cup {Repeat(<<t[1], t[2], t[1]>>, 1) \o Repeat(<<t[2], t[1]>>, 1) :
              t \in {u \in Candidates \X Candidates : u[1] # u[2]}}

\* Ballots that carry more than one vote (vote_value is an argument of
\* Ballot.__init__), four votes in all: two ballots of two votes; a ballot
\* of two votes beside two of one vote, of which one may rank nobody; a
\* ballot of three votes beside one of one vote.
WeightedBallots ==
    {<<Ballot(<<<<"A">>, <<"B">>>>, 0, Num(2)),
       Ballot(<<NoConfidence, <<"A", "B">>>>, 0, Num(2))>>,
     <<Ballot(<<<<"A">>>>, 0, Num(1)),
       Ballot(<<<<"B">>, <<"A">>>>, 0, Num(1)),
       Ballot(<<NoConfidence, <<"A", "B">>>>, 0, Num(2))>>,
     <<Ballot(<<>>, 0, Num(1)),
       Ballot(<<<<"A">>>>, 0, Num(1)),
       Ballot(<<<<"B">>, NoConfidence>>, 0, Num(2))>>,
     <<Ballot(<<<<"A">>, NoConfidence>>, 0, Num(1)),
       Ballot(<<<<"B">>, <<"A", "B">>>>, 0, Num(3))>>}

\* The lists of ballots handed to Election.__init__.
Ballots ==
    GivenBallots \cup ScenarioBallots \cup ThreeRanked \cup DuplicateRanked
        \cup WeightedBallots

\* The strings used as tiebreak_alphanumeric, given as random_alphanumeric
\* or sampled: one holds every character of every uid, one lacks a character.
TiebreakAlphanumerics == {<<"B", "A", "N", "C">>, <<"B", "N", "C">>}

\* The string is read by the random tie-break only: without random
\* tie-breaks one string stands for all.
Alphanumerics(can_random_tiebreak) ==
    IF can_random_tiebreak THEN TiebreakAlphanumerics
    ELSE {CHOOSE a \in TiebreakAlphanumerics : TRUE}

\* ------------------------------------------------------------------- heap
Max(S) == CHOOSE x \in S : \A y \in S : y <= x

\* Faulty variant of deepcopy: the list refers to the same ballots.
ShallowCopy(h, list) == [heap |-> h, list |-> list]

\* copy.deepcopy(list) of a list of ballots: fresh objects with equal values.
deepcopy(h, list) ==
    LET base == Max(DOMAIN h \cup {0})
        copy == [i \in 1..Len(list) |-> base + i]
    IN  [heap |-> [r \in DOMAIN h \cup Range(copy) |->
                      IF r \in DOMAIN h THEN h[r] ELSE h[list[r - base]]],
         list |-> copy]

\* list.remove(ballot): drops the first element equal to ballot (Ballot.__eq__
\* compares candidates, vote_value and preferred rank).
ListRemove(h, list, ballot) ==
    LET i == CHOOSE k \in 1..Len(list) :
                 /\ h[list[k]] = h[ballot]
                 /\ \A j \in 1..(k - 1) : h[list[j]] # h[ballot]
    IN  RemoveAt(list, i)

\* Faulty variant of RemoveAll: the ballots stay in the list.
KeepAll(h, list, to_remove, i) == list

RECURSIVE RemoveAll(_, _, _, _)
RemoveAll(h, list, to_remove, i) ==
    IF i > Len(to_remove) THEN list
    ELSE The({RemoveAll(h, rest, to_remove, i + 1) :
                 rest \in {ListRemove(h, list, to_remove[i])}})

\* ------------------------------------------------------- compute_results
\* No method of standalone has been called.
NoCall ==
    [op |-> "none", candidate |-> None, vote_value |-> Num(0), candidates |-> {},
     printed |-> "", result |-> {}]

current_round == Len(election_rounds)
vote_tracker == election_rounds[current_round].vote_tracker
seats_vacant == self.seats - Cardinality(candidates_elected)

\* No Election has been constructed yet.
Init ==
    /\ pc = "new"
    /\ given = <<>>
    /\ self = [ballots |-> <<>>, seats |-> 0,
               can_eliminate_no_confidence |-> TRUE,
               can_random_tiebreak |-> TRUE,
               random_alphanumeric |-> None]
    /\ tiebreak_alphanumeric = None
    /\ heap = <<>>
    /\ ballots_active = <<>>
    /\ election_rounds = <<>>
    /\ ballots_exhausted = <<>>
    /\ candidates_elected = {}
    /\ candidates_eliminated = {}
    /\ ballots_for_candidate = <<>>
    /\ ballots_to_exhaust = <<>>
    /\ candidates_to_eliminate = {}
    /\ random_tiebreak_occurred = FALSE
    /\ ballots_active_tiebreak = <<>>
    /\ ballots_exhausted_tiebreak = <<>>
    /\ standalone = VoteTracker
    /\ call = NoCall
    /\ stv = NoElection
    /\ counter = Election_Counter
    /\ declaring = NoDeclaring

\* Election(ballots, seats, ...) (lines 511-516) and the call of its
\* compute_results up to the loop (lines 538-554): ballots_active is a deep
\* copy of self.ballots.
Compute ==
    /\ pc = "new"
    /\ given' \in Ballots
    /\ \E seats \in 0..MaxSeats, nc \in BOOLEAN, rt \in BOOLEAN :
          \E alnum \in Alphanumerics(rt) :
             /\ self' = [ballots |-> [i \in 1..Len(given') |-> i],
                         seats |-> seats,
                         can_eliminate_no_confidence |-> nc,
                         can_random_tiebreak |-> rt,
                         random_alphanumeric |-> alnum]
             /\ tiebreak_alphanumeric' = alnum
    /\ \E c \in {deepcopy([r \in 1..Len(given') |-> given'[r]], self'.ballots)} :
           /\ heap' = c.heap
           /\ ballots_active' = c.list
    /\ pc' = "loop"
    /\ UNCHANGED <<standalone, call, older>>
    /\ UNCHANGED <<election_rounds, ballots_exhausted, candidates_elected,
                   candidates_eliminated, ballots_for_candidate,
                   ballots_to_exhaust, elimination_locals>>

\* Faulty variant of SkipDecided: one preference at most is dropped.
SkipOne(ballot, decided) ==
    LET candidate == preferred_active_candidate(ballot)
    IN  IF candidate = None \/ candidate \notin decided
        THEN ballot
        ELSE eliminate_preferred_candidate(ballot)

\* The inner `while True` of the count: drop the ballot's preferences that
\* are already elected or eliminated.
RECURSIVE SkipDecided(_, _)
SkipDecided(ballot, decided) ==
    LET candidate == preferred_active_candidate(ballot)
    IN  IF candidate = None \/ candidate \notin decided
        THEN ballot
        ELSE The({SkipDecided(next, decided) :
                     next \in {eliminate_preferred_candidate(ballot)}})

\* Faulty variant of CastZeros: no vote of 0 is cast.
CastNoZeros(tracker, candidates, decided, i) == tracker

\* Faulty variant of CastZeros: every candidate of the ballot is put into
\* the tally.
RECURSIVE CastZerosForAll(_, _, _, _)
CastZerosForAll(tracker, candidates, decided, i) ==
    IF i > Len(candidates) THEN tracker
    ELSE The({CastZerosForAll(next, candidates, decided, i + 1) :
                 next \in {cast_vote_for_candidate(tracker, candidates[i], Num(0))}})

\* cast_vote_for_candidate(candidate, 0.0) for every candidate of the ballot
\* that is neither elected nor eliminated.
RECURSIVE CastZeros(_, _, _, _)
CastZeros(tracker, candidates, decided, i) ==
    IF i > Len(candidates) THEN tracker
    ELSE The({CastZeros(next, candidates, decided, i + 1) :
                 next \in {IF candidates[i] \notin decided
                           THEN cast_vote_for_candidate(tracker, candidates[i], Num(0))
                           ELSE tracker}})

\* Faulty variant of CountBallot: a ballot without value is counted like a
\* ballot with value.
CountWorthless(st, ref, ballot, decided) ==
    LET candidate == preferred_active_candidate(ballot)
    IN  IF candidate = None
        THEN [heap |-> [st.heap EXCEPT ![ref] = ballot],
              vote_tracker |-> CastZeros(st.vote_tracker, ballot.candidates, decided, 1),
              ballots_for_candidate |-> st.ballots_for_candidate,
              ballots_to_exhaust |-> Append(st.ballots_to_exhaust, ref)]
        ELSE [heap |-> [st.heap EXCEPT ![ref] = ballot],
              vote_tracker |->
                  The({cast_vote_for_candidate(tracker, candidate, ballot.vote_value) :
                          tracker \in {CastZeros(st.vote_tracker, ballot.candidates,
                                                 decided, 1)}}),
              ballots_for_candidate |->
                  [c \in DOMAIN st.ballots_for_candidate \cup {candidate} |->
                      IF c = candidate
                      THEN Append(IF c \in DOMAIN st.ballots_for_candidate
                                  THEN st.ballots_for_candidate[c] ELSE <<>>,
                                  ref)
                      ELSE st.ballots_for_candidate[c]],
              ballots_to_exhaust |-> st.ballots_to_exhaust]

\* Lines 584-608 for one ballot, once its preferences are resolved.
\* st = [heap, vote_tracker, ballots_for_candidate, ballots_to_exhaust]
CountBallot(st, ref, ballot, decided) ==
    LET candidate == preferred_active_candidate(ballot)
    IN  IF candidate = None \/ Leq(ballot.vote_value, Num(0))
        THEN [heap |-> [st.heap EXCEPT ![ref] = ballot],
              vote_tracker |-> CastZeros(st.vote_tracker, ballot.candidates, decided, 1),
              ballots_for_candidate |-> st.ballots_for_candidate,
              ballots_to_exhaust |-> Append(st.ballots_to_exhaust, ref)]
        ELSE [heap |-> [st.heap EXCEPT ![ref] = ballot],
              vote_tracker |->
                  The({cast_vote_for_candidate(tracker, candidate, ballot.vote_value) :
                          tracker \in {CastZeros(st.vote_tracker, ballot.candidates,
                                                 decided, 1)}}),
              ballots_for_candidate |->
                  [c \in DOMAIN st.ballots_for_candidate \cup {candidate} |->
                      IF c = candidate
                      THEN Append(IF c \in DOMAIN st.ballots_for_candidate
                                  THEN st.ballots_for_candidate[c] ELSE <<>>,
                                  ref)
                      ELSE st.ballots_for_candidate[c]],
              ballots_to_exhaust |-> st.ballots_to_exhaust]

\* Lines 569-608: the loop over ballots_active from its i-th ballot on.
RECURSIVE CountVotes(_, _, _, _)
CountVotes(st, active, decided, i) ==
    IF i > Len(active) THEN st
    ELSE The({CountVotes(counted, active, decided, i + 1) :
                 counted \in {CountBallot(st, active[i], ballot, decided) :
                                 ballot \in {SkipDecided(st.heap[active[i]], decided)}}})

\* Lines 558-617: a new round is opened, the votes are counted and the
\* exhausted ballots are set aside; an empty tally ends the election.
NewRound ==
    /\ pc = "loop"
    /\ Cardinality(candidates_elected) < self.seats
    /\ \E st \in {CountVotes([heap |-> heap, vote_tracker |-> VoteTracker,
                              ballots_for_candidate |-> <<>>,
                              ballots_to_exhaust |-> <<>>],
                             ballots_active,
                             candidates_elected \cup candidates_eliminated, 1)} :
           /\ heap' = st.heap
           /\ election_rounds' = Append(election_rounds, ElectionRound(st.vote_tracker))
           /\ ballots_for_candidate' = st.ballots_for_candidate
           /\ ballots_to_exhaust' = st.ballots_to_exhaust
           /\ ballots_active' = RemoveAll(st.heap, ballots_active, st.ballots_to_exhaust, 1)
           /\ ballots_exhausted' = ballots_exhausted \o st.ballots_to_exhaust
           /\ pc' = IF TrackerCandidates(st.vote_tracker) = {} THEN "done" ELSE "counted"
    /\ UNCHANGED <<standalone, call, older>>
    /\ UNCHANGED <<self, given, tiebreak_alphanumeric, candidates_elected,
                   candidates_eliminated, elimination_locals>>

\* Line 558 with the seats filled, and lines 792-795: the results are
\* returned.  (A `break` of the loop leads to the same lines.)
Return ==
    /\ pc = "loop"
    /\ ~(Cardinality(candidates_elected) < self.seats)
    /\ pc' = "done"
    /\ UNCHANGED <<standalone, call, older>>
    /\ UNCHANGED <<self, heap, given, tiebreak_alphanumeric, election_rounds,
                   ballots_active, ballots_exhausted, candidates_elected,
                   candidates_eliminated, ballots_for_candidate,
                   ballots_to_exhaust, elimination_locals>>

\* Faulty variant of SetRound: the field is set in the record of the first
\* round.
SetFirstRound(rounds, field, value) ==
    [rounds EXCEPT ![1] = [@ EXCEPT ![field] = value]]

\* election_round.<field> = value, for the round being counted.
SetRound(rounds, field, value) ==
    [rounds EXCEPT ![Len(rounds)] = [@ EXCEPT ![field] = value]]

\* Faulty variant of droop_quota: votes / seats + 1.
QuotaOfSeats(seats, votes) == Plus(Over(votes, Num(seats)), Num(1))

\* Faulty variant of droop_quota: votes / (seats + 1), without the 1 added.
QuotaWithoutOne(seats, votes) == Over(votes, Plus(Num(seats), Num(1)))

droop_quota(seats, votes) == Plus(Over(votes, Plus(Num(seats), Num(1))), Num(1))

\* Lines 619-634: no more candidates than vacant seats; those with at least
\* the votes of No Confidence are elected and the election ends.
\* Faulty variant of nc_vote: the votes of No Confidence are not looked up.
NoVotes(tracker) == Num(0)

\* Lines 624-628: the votes of No Confidence, 0 when it is not in the tally.
nc_vote(tracker) ==
    IF \E candidate \in TrackerCandidates(tracker) : IsNoConfidence(candidate)
    THEN votes_for_candidate(tracker, NoConfidence)
    ELSE Num(0)

\* Faulty variant of FillSeats: every candidate of the tally is elected.
FillEveryCandidate ==
    /\ pc = "counted"
    /\ Cardinality(TrackerCandidates(vote_tracker)) <= seats_vacant
    /\ candidates_elected' = candidates_elected \cup TrackerCandidates(vote_tracker)
    /\ election_rounds' =
           SetRound(election_rounds, "candidates_elected",
                    TrackerCandidates(vote_tracker))
    /\ pc' = "done"
    /\ UNCHANGED <<standalone, call, older>>
    /\ UNCHANGED <<self, heap, given, tiebreak_alphanumeric, ballots_active,
                   ballots_exhausted, candidates_eliminated, ballots_for_candidate,
                   ballots_to_exhaust, elimination_locals>>

FillSeats ==
    /\ pc = "counted"
    /\ Cardinality(TrackerCandidates(vote_tracker)) <= seats_vacant
    /\ LET candidates_to_elect ==
               candidates_reaching_threshold(vote_tracker,
                                             TrackerCandidates(vote_tracker),
                                             nc_vote(vote_tracker))
       IN  /\ candidates_elected' = candidates_elected \cup candidates_to_elect
           /\ election_rounds' =
                  SetRound(election_rounds, "candidates_elected", candidates_to_elect)
    /\ pc' = "done"
    /\ UNCHANGED <<standalone, call, older>>
    /\ UNCHANGED <<self, heap, given, tiebreak_alphanumeric, ballots_active,
                   ballots_exhausted, candidates_eliminated, ballots_for_candidate,
                   ballots_to_exhaust, elimination_locals>>

\* Faulty variant of ScaleBallots: the ballots keep their vote value.
ScaleNone(h, refs, vote_multiplier, i) == h

\* Lines 659-660: every ballot counted for the candidate is scaled.
RECURSIVE ScaleBallots(_, _, _, _)
ScaleBallots(h, refs, vote_multiplier, i) ==
    IF i > Len(refs) THEN h
    ELSE ScaleBallots([h EXCEPT ![refs[i]].vote_value = Times(@, vote_multiplier)],
                      refs, vote_multiplier, i + 1)

\* Faulty variant of TransferSurplus: the surplus is taken as the threshold
\* less the votes.
RECURSIVE TransferDeficit(_, _, _, _, _, _)
TransferDeficit(h, tracker, for_candidate, threshold, order, i) ==
    IF i > Len(order) THEN h
    ELSE LET candidate == order[i]
             votes == votes_for_candidate(tracker, candidate)
             surplus == Minus(threshold, votes)
             vote_multiplier == Over(surplus, votes)
         IN  TransferDeficit(ScaleBallots(h, for_candidate[candidate], vote_multiplier, 1),
                             tracker, for_candidate, threshold, order, i + 1)

\* Lines 652-660: the surplus of each elected candidate, in the order `order`
\* of the set candidates_to_elect.
RECURSIVE TransferSurplus(_, _, _, _, _, _)
TransferSurplus(h, tracker, for_candidate, threshold, order, i) ==
    IF i > Len(order) THEN h
    ELSE LET candidate == order[i]
             votes == votes_for_candidate(tracker, candidate)
             surplus == Minus(votes, threshold)
             vote_multiplier == Over(surplus, votes)
         IN  TransferSurplus(ScaleBallots(h, for_candidate[candidate], vote_multiplier, 1),
                             tracker, for_candidate, threshold, order, i + 1)

threshold_of_round == droop_quota(seats_vacant, vote_tracker.votes_cast)

reaching_threshold ==
    candidates_reaching_threshold(vote_tracker, TrackerCandidates(vote_tracker),
                                  threshold_of_round)

\* Lines 652-660: the ballots after the transfer of the surplus, one heap for
\* each order the set candidates_to_elect may be iterated in.
Surpluses ==
    {TransferSurplus(heap, vote_tracker, ballots_for_candidate,
                     threshold_of_round, order, 1) :
        order \in Orders(reaching_threshold)}

\* Faulty variant of no_confidence_elected: No Confidence is not looked for.
NeverElected(candidates_to_elect) == FALSE

\* Lines 651-664: whether No Confidence is among the candidates elected.
no_confidence_elected(candidates_to_elect) ==
    \E candidate \in candidates_to_elect : IsNoConfidence(candidate)

\* Lines 636-671: the quota, the candidates reaching it and their surplus.
ElectWinners ==
    /\ pc = "counted"
    /\ ~(Cardinality(TrackerCandidates(vote_tracker)) <= seats_vacant)
    /\ reaching_threshold # {}
    /\ candidates_elected' = candidates_elected \cup reaching_threshold
    /\ election_rounds' =
           SetRound(SetRound(election_rounds, "threshold", threshold_of_round),
                    "candidates_elected", reaching_threshold)
    /\ IF \E candidate \in reaching_threshold :
              \/ votes_for_candidate(vote_tracker, candidate) = Num(0)
              \/ candidate \notin DOMAIN ballots_for_candidate
       THEN \* ZeroDivisionError or KeyError: compute_results raises
            /\ pc' = "raised"
            /\ heap' = heap
       ELSE /\ heap' \in Surpluses
            /\ pc' = IF no_confidence_elected(reaching_threshold)
                     THEN "done" ELSE "loop"
    /\ UNCHANGED <<standalone, call, older>>
    /\ UNCHANGED <<self, given, tiebreak_alphanumeric, ballots_active,
                   ballots_exhausted, candidates_eliminated, ballots_for_candidate,
                   ballots_to_exhaust, elimination_locals>>

\* Faulty variant of candidates_eligible_to_eliminate: No Confidence is
\* eligible whatever can_eliminate_no_confidence says.
EveryCandidateEligible == TrackerCandidates(vote_tracker)

\* Lines 678-682.
candidates_eligible_to_eliminate ==
    {candidate \in TrackerCandidates(vote_tracker) :
        self.can_eliminate_no_confidence \/ ~IsNoConfidence(candidate)}

\* Faulty variant of TiebreakRequired: the votes are not compared.
AlwaysRequired(tied, first, next) == Cardinality(tied) > 1

\* Lines 690-699, for the tied candidates, with `first` and `next` the
\* candidates that next(iter(candidates_to_eliminate)) and
\* next(iter(next_highest_candidates)) yield (None: the set is empty).
TiebreakRequired(tied, first, next) ==
    IF Cardinality(tied) > 1
    THEN LET tied_combined_vote_value ==
                 Times(Num(Cardinality(tied)), votes_for_candidate(vote_tracker, first))
             next_highest_vote_value ==
                 IF next = None THEN Num(0)
                 ELSE votes_for_candidate(vote_tracker, next)
         IN  Leq(next_highest_vote_value, tied_combined_vote_value)
    ELSE FALSE

\* A candidate of the set S as next(iter(S)) may yield it.
NextIter(S) == IF S = {} THEN {None} ELSE S

\* Lines 676-699: the outcomes <<candidates_to_eliminate, tiebreak_required>>
\* that the orders of iteration of the sets allow.
Losers ==
    UNION {UNION {{<<fewest, TiebreakRequired(fewest, first, next)>> :
                      first \in NextIter(fewest), next \in NextIter(next_highest)} :
                  next_highest \in FewestVotes(vote_tracker,
                                               candidates_eligible_to_eliminate \ fewest)} :
           fewest \in FewestVotes(vote_tracker, candidates_eligible_to_eliminate)}

\* Lines 641-648 with nobody reaching the quota, then lines 676-699: the
\* eligible candidates with the fewest votes, and whether they are all
\* eliminated or a tie-break is needed.
FindLosers ==
    /\ pc = "counted"
    /\ ~(Cardinality(TrackerCandidates(vote_tracker)) <= seats_vacant)
    /\ reaching_threshold = {}
    /\ election_rounds' = SetRound(election_rounds, "threshold", threshold_of_round)
    /\ \E losers \in Losers :
           /\ candidates_to_eliminate' = losers[1]
           /\ IF losers[2]
              THEN /\ pc' = "previous"
                   /\ UNCHANGED random_tiebreak_occurred
              ELSE /\ pc' = "eliminate"
                   /\ random_tiebreak_occurred' = FALSE
    /\ UNCHANGED <<standalone, call, older>>
    /\ UNCHANGED <<self, heap, given, tiebreak_alphanumeric, ballots_active,
                   ballots_exhausted, candidates_elected, candidates_eliminated,
                   ballots_for_candidate, ballots_to_exhaust,
                   ballots_active_tiebreak, ballots_exhausted_tiebreak>>

\* Faulty variant of PreviousRounds: the earlier rounds are not looked at.
NoPreviousRounds(tied, previous_round) == {tied}

\* Lines 706-708: the tied candidates are narrowed with the tally of
\* election_rounds[previous_round], then of the rounds before it.  The value
\* is the set of the outcomes that the orders of iteration allow.
RECURSIVE PreviousRounds(_, _)
PreviousRounds(tied, previous_round) ==
    IF Cardinality(tied) > 1 /\ previous_round >= 0
    THEN UNION {PreviousRounds(fewest, previous_round - 1) :
                   fewest \in FewestVotes(election_rounds[previous_round + 1].vote_tracker,
                                          tied)}
    ELSE {tied}

\* Lines 704-710: the backward tie-break.
BackwardTiebreak ==
    /\ pc = "previous"
    /\ \E tied \in PreviousRounds(candidates_to_eliminate, current_round - 1) :
           /\ candidates_to_eliminate' = tied
           /\ IF Cardinality(tied) > 1
              THEN /\ pc' = "forward"
                   /\ UNCHANGED random_tiebreak_occurred
              ELSE /\ pc' = "eliminate"
                   /\ random_tiebreak_occurred' = FALSE
    /\ UNCHANGED <<standalone, call, older>>
    /\ UNCHANGED <<self, heap, given, tiebreak_alphanumeric, election_rounds,
                   ballots_active, ballots_exhausted, candidates_elected,
                   candidates_eliminated, ballots_for_candidate, ballots_to_exhaust,
                   ballots_active_tiebreak, ballots_exhausted_tiebreak>>

\* The ballots some variable of the election still refers to once the
\* variables of the forward tie-break are assigned anew.
LiveBallots ==
    Range(self.ballots) \cup Range(ballots_active) \cup Range(ballots_exhausted)

\* Faulty variant of ForwardCopy: the forward tie-break works on the ballots
\* of the election themselves.
ForwardAlias ==
    /\ pc = "forward"
    /\ ballots_active_tiebreak' = ballots_active
    /\ ballots_exhausted_tiebreak' = ballots_exhausted
    /\ pc' = "forward_loop"
    /\ UNCHANGED <<standalone, call, older>>
    /\ UNCHANGED <<self, heap, given, tiebreak_alphanumeric, election_rounds,
                   ballots_active, ballots_exhausted, candidates_elected,
                   candidates_eliminated, ballots_for_candidate, ballots_to_exhaust,
                   candidates_to_eliminate, random_tiebreak_occurred>>

\* Lines 716-717: the forward tie-break works on copies of the ballots.
ForwardCopy ==
    /\ pc = "forward"
    /\ \E kept \in {[r \in DOMAIN heap \cap LiveBallots |-> heap[r]]} :
       \E active \in {deepcopy(kept, ballots_active)} :
       \E exhausted \in {deepcopy(active.heap, ballots_exhausted)} :
           /\ heap' = exhausted.heap
           /\ ballots_active_tiebreak' = active.list
           /\ ballots_exhausted_tiebreak' = exhausted.list
    /\ pc' = "forward_loop"
    /\ UNCHANGED <<standalone, call, older>>
    /\ UNCHANGED <<self, given, tiebreak_alphanumeric, election_rounds,
                   ballots_active, ballots_exhausted, candidates_elected,
                   candidates_eliminated, ballots_for_candidate, ballots_to_exhaust,
                   candidates_to_eliminate, random_tiebreak_occurred>>

\* Faulty variant of ForwardStep: the ballot stays on its preference.
KeepPreference(ballot, can_eliminate_nc) == ballot

\* Line 723-724: the ballot's preference is passed over, unless it is No
\* Confidence and No Confidence cannot be eliminated.
ForwardStep(ballot, can_eliminate_nc) ==
    IF can_eliminate_nc \/ ~IsNoConfidence(preferred_active_candidate(ballot))
    THEN eliminate_preferred_candidate(ballot)
    ELSE ballot

\* Lines 737-754 for one ballot, once its preferences are resolved.
\* st = [heap, vote_tracker, ballots_to_exhaust]
ForwardBallot(st, ref, ballot, decided, can_eliminate_nc) ==
    LET candidate == preferred_active_candidate(ballot)
    IN  IF candidate = None \/ (~can_eliminate_nc /\ IsNoConfidence(candidate))
        THEN [heap |-> [st.heap EXCEPT ![ref] = ballot],
              vote_tracker |-> CastZeros(st.vote_tracker, ballot.candidates, decided, 1),
              ballots_to_exhaust |-> Append(st.ballots_to_exhaust, ref)]
        ELSE [heap |-> [st.heap EXCEPT ![ref] = ballot],
              vote_tracker |->
                  The({cast_vote_for_candidate(tracker, candidate, ballot.vote_value) :
                          tracker \in {CastZeros(st.vote_tracker, ballot.candidates,
                                                 decided, 1)}}),
              ballots_to_exhaust |-> st.ballots_to_exhaust]

\* Lines 721-754: one pass over ballots_active_tiebreak from its i-th ballot.
RECURSIVE ForwardCount(_, _, _, _, _)
ForwardCount(st, active, decided, can_eliminate_nc, i) ==
    IF i > Len(active) THEN st
    ELSE The({ForwardCount(counted, active, decided, can_eliminate_nc, i + 1) :
                 counted \in {ForwardBallot(st, active[i], ballot, decided,
                                            can_eliminate_nc) :
                                 ballot \in {SkipDecided(
                                                ForwardStep(st.heap[active[i]],
                                                            can_eliminate_nc),
                                                decided)}}})

ForwardLoopCondition ==
    Cardinality(candidates_to_eliminate) > 1 /\ Len(ballots_active_tiebreak) > 1

\* Lines 718-760: one iteration of the loop of the forward tie-break.
ForwardPass ==
    /\ pc = "forward_loop"
    /\ ForwardLoopCondition
    /\ \E st \in {ForwardCount([heap |-> heap, vote_tracker |-> VoteTracker,
                                ballots_to_exhaust |-> <<>>],
                               ballots_active_tiebreak,
                               candidates_elected \cup candidates_eliminated,
                               self.can_eliminate_no_confidence, 1)} :
           /\ heap' = st.heap
           /\ candidates_to_eliminate' \in
                  FewestVotes(st.vote_tracker, candidates_to_eliminate)
           /\ ballots_active_tiebreak' =
                  RemoveAll(st.heap, ballots_active_tiebreak, st.ballots_to_exhaust, 1)
           /\ ballots_exhausted_tiebreak' = ballots_exhausted_tiebreak \o ballots_to_exhaust
    /\ pc' = "forward_loop"
    /\ UNCHANGED <<standalone, call, older>>
    /\ UNCHANGED <<self, given, tiebreak_alphanumeric, election_rounds,
                   ballots_active, ballots_exhausted, candidates_elected,
                   candidates_eliminated, ballots_for_candidate, ballots_to_exhaust,
                   random_tiebreak_occurred>>

\* Line 718 with the condition false, and line 762.
ForwardExit ==
    /\ pc = "forward_loop"
    /\ ~ForwardLoopCondition
    /\ IF Cardinality(candidates_to_eliminate) > 1
       THEN /\ pc' = "random"
            /\ UNCHANGED random_tiebreak_occurred
       ELSE /\ pc' = "eliminate"
            /\ random_tiebreak_occurred' = FALSE
    /\ UNCHANGED <<standalone, call, older>>
    /\ UNCHANGED <<self, heap, given, tiebreak_alphanumeric, election_rounds,
                   ballots_active, ballots_exhausted, candidates_elected,
                   candidates_eliminated, ballots_for_candidate, ballots_to_exhaust,
                   candidates_to_eliminate, ballots_active_tiebreak,
                   ballots_exhausted_tiebreak>>

\* Faulty variant of Index: a character that is not in the string is given
\* the position after the last, and nothing is raised.
IndexOrLength(string, c) ==
    IF \E k \in 1..Len(string) : string[k] = c
    THEN (CHOOSE k \in 1..Len(string) :
              string[k] = c /\ \A j \in 1..(k - 1) : string[j] # c) - 1
    ELSE Len(string)

\* str.index(c): the 0-based position of the first c in the string, -1 here
\* where Python raises ValueError.
Index(string, c) ==
    IF \E k \in 1..Len(string) : string[k] = c
    THEN (CHOOSE k \in 1..Len(string) :
              string[k] = c /\ \A j \in 1..(k - 1) : string[j] # c) - 1
    ELSE -1

\* Faulty variant of SortKey: the first character of the uid alone is
\* looked up.
FirstCharKey(candidate) == <<Index(tiebreak_alphanumeric, candidate[1])>>

\* The sort key of line 776.
SortKey(candidate) ==
    [k \in 1..Len(candidate) |-> Index(tiebreak_alphanumeric, candidate[k])]

\* Python's order of two lists of integers: a < b.
ListLess(a, b) ==
    \E k \in 1..(Len(b)) :
        /\ \A j \in 1..(k - 1) : j <= Len(a) /\ a[j] = b[j]
        /\ \/ k = Len(a) + 1
           \/ k <= Len(a) /\ a[k] < b[k]

\* Faulty variant of Sorted: the candidates stay in the order of iteration.
Unsorted(order) == order

\* sorted(order, key=SortKey): stable, so candidates with equal keys stay in
\* the order the set was iterated in.
RECURSIVE Sorted(_)
Sorted(order) ==
    IF Len(order) <= 1 THEN order
    ELSE LET last == order[Len(order)]
         IN  The({The({SubSeq(front, 1, n) \o <<last>> \o SubSeq(front, n + 1, Len(front)) :
                          n \in {Cardinality({k \in 1..Len(front) :
                                     ~ListLess(SortKey(last), SortKey(front[k]))})}}) :
                     front \in {Sorted(SubSeq(order, 1, Len(order) - 1))}})

\* Faulty variant of FirstNotNoConfidence: the tied candidates all stay.
AllTied(sorted, tied) == tied

\* Lines 779-782: the first candidate of the sorted list that is not No
\* Confidence is the one eliminated.
FirstNotNoConfidence(sorted, tied) ==
    IF \E k \in 1..Len(sorted) : ~IsNoConfidence(sorted[k])
    THEN {sorted[CHOOSE k \in 1..Len(sorted) :
                     /\ ~IsNoConfidence(sorted[k])
                     /\ \A j \in 1..(k - 1) : IsNoConfidence(sorted[j])]}
    ELSE tied

\* Lines 776-782: the candidates to eliminate after the random tie-break, one
\* set for each order the set of the tied candidates may be iterated in.
RandomLosers ==
    {FirstNotNoConfidence(Sorted(order), candidates_to_eliminate) :
        order \in Orders(candidates_to_eliminate)}

\* Faulty variant of RandomTiebreak: can_random_tiebreak is not looked at.
RandomTiebreakAlways ==
    /\ pc = "random"
    /\ candidates_to_eliminate' \in RandomLosers
    /\ random_tiebreak_occurred' = TRUE
    /\ pc' = "eliminate"
    /\ UNCHANGED <<standalone, call, older>>
    /\ UNCHANGED <<self, heap, given, tiebreak_alphanumeric, election_rounds,
                   ballots_active, ballots_exhausted, candidates_elected,
                   candidates_eliminated, ballots_for_candidate, ballots_to_exhaust,
                   ballots_active_tiebreak, ballots_exhausted_tiebreak>>

\* Lines 766-782: the random tie-break, or the end of the election when it
\* is not allowed.
RandomTiebreak ==
    /\ pc = "random"
    /\ IF ~self.can_random_tiebreak
       THEN /\ pc' = "done"
            /\ random_tiebreak_occurred' = TRUE
            /\ UNCHANGED candidates_to_eliminate
       ELSE IF \E candidate \in candidates_to_eliminate :
                   \E k \in 1..Len(candidate) :
                       Index(tiebreak_alphanumeric, candidate[k]) = -1
       THEN \* ValueError: compute_results raises
            /\ pc' = "raised"
            /\ random_tiebreak_occurred' = TRUE
            /\ UNCHANGED candidates_to_eliminate
       ELSE /\ candidates_to_eliminate' \in RandomLosers
            /\ random_tiebreak_occurred' = TRUE
            /\ pc' = "eliminate"
    /\ UNCHANGED <<standalone, call, older>>
    /\ UNCHANGED <<self, heap, given, tiebreak_alphanumeric, election_rounds,
                   ballots_active, ballots_exhausted, candidates_elected,
                   candidates_eliminated, ballots_for_candidate, ballots_to_exhaust,
                   ballots_active_tiebreak, ballots_exhausted_tiebreak>>

\* Faulty variant of Eliminate: the round is recorded and the candidates
\* are not added to the eliminated.
EliminateNone ==
    /\ pc = "eliminate"
    /\ election_rounds' =
           SetRound(SetRound(election_rounds, "candidates_eliminated",
                             candidates_to_eliminate),
                    "random_tiebreak_occurred", random_tiebreak_occurred)
    /\ pc' = "loop"
    /\ UNCHANGED <<standalone, call, older>>
    /\ UNCHANGED <<self, heap, given, tiebreak_alphanumeric, ballots_active,
                   ballots_exhausted, candidates_elected, candidates_eliminated,
                   ballots_for_candidate, ballots_to_exhaust, elimination_locals>>

\* Lines 784-787: the candidates are eliminated and the round is recorded.
Eliminate ==
    /\ pc = "eliminate"
    /\ candidates_eliminated' = candidates_eliminated \cup candidates_to_eliminate
    /\ election_rounds' =
           SetRound(SetRound(election_rounds, "candidates_eliminated",
                             candidates_to_eliminate),
                    "random_tiebreak_occurred", random_tiebreak_occurred)
    /\ pc' = "loop"
    /\ UNCHANGED <<standalone, call, older>>
    /\ UNCHANGED <<self, heap, given, tiebreak_alphanumeric, ballots_active,
                   ballots_exhausted, candidates_elected, ballots_for_candidate,
                   ballots_to_exhaust, elimination_locals>>

\* A step of the loop of compute_results, or its return.
Round ==
    \/ NewRound
    \/ FillSeats
    \/ ElectWinners
    \/ FindLosers
    \/ BackwardTiebreak
    \/ ForwardCopy
    \/ ForwardPass
    \/ ForwardExit
    \/ RandomTiebreak
    \/ Eliminate
    \/ Return

Next == Compute \/ Round

Spec == Init /\ [][Next]_vars

\* The calls with at most MaxFairBallots ballots.
FairCompute == Compute /\ Len(given') <= MaxFairBallots

FairNext == FairCompute \/ Round

\* compute_results is one synchronous call: a step that can be taken is taken.
FairSpec == Init /\ [][FairNext]_vars /\ WF_vars(FairNext)

\* ------------------------------------------------ stv_compute.py
\* The older program stv_compute.py (Python 2: raw_input, and xrange in its
\* tests).  Candidates are strings, a ballot maps the ranks 1, 2, ... to
\* candidates, and vote values are floats, here exact fractions.
StvCandidates == {"X", "Y", NO_CONFIDENCE}

\* The rankings a ballot may hold: continuous from rank 1, no duplicates.
StvRankings ==
    {ranks \in UNION {[1..n -> StvCandidates] : n \in 1..MaxStvRank} :
        \A i, j \in 1..Len(ranks) : i # j => ranks[i] # ranks[j]}

\* Ballot() followed by set_candidate_with_rank for each rank (lines 36-43,
\* 65-76).
StvBallot(ranks) ==
    [vote_value |-> Num(1), preferred_active_rank |-> 1, ranks |-> ranks]

\* Four ballots for X then No Confidence and three for No Confidence
\* alone: with two seats both reach the quota of 3, X with a surplus.
StvScenarios ==
    {[i \in 1..7 |-> IF i <= 4 THEN <<"X", NO_CONFIDENCE>>
                     ELSE <<NO_CONFIDENCE>>],
     [i \in 1..5 |-> IF i <= 2 THEN <<"X", "Y">>
                     ELSE IF i <= 4 THEN <<"Y", "X">> ELSE <<NO_CONFIDENCE>>]}

\* The lists of ballots handed to an Election of stv_compute.py.
StvBallotLists ==
    {[i \in DOMAIN rankings |-> StvBallot(rankings[i])] :
        rankings \in UNION {[1..n -> StvRankings] : n \in 1..MaxStvBallots}
                     \cup StvScenarios}

\* Ballot.preferred_active_candidate (lines 45-51): dict.get of the rank.
stv_preferred_active_candidate(ballot) ==
    IF ballot.preferred_active_rank \in DOMAIN ballot.ranks
    THEN ballot.ranks[ballot.preferred_active_rank]
    ELSE NoCandidate

\* Ballot.eliminate_preferred_candidate (lines 53-63): the rank advances
\* unless the ballot has no preferred candidate or prefers No Confidence,
\* where an error is printed and the ballot is left as it is.
stv_eliminate_preferred_candidate(ballot) ==
    IF stv_preferred_active_candidate(ballot) = NoCandidate THEN ballot
    ELSE IF stv_preferred_active_candidate(ballot) = NO_CONFIDENCE THEN ballot
    ELSE [ballot EXCEPT !.preferred_active_rank = @ + 1]

\* Election_Counter.is_candidate_eliminated (lines 225-233).
is_candidate_eliminated(c, candidate) ==
    candidate \in c.winning_candidates \/ candidate \in c.losing_candidates

\* The dict of votes of a round.
VotesOfRound(c, voting_round) == c.votes_for_candidate_per_round[voting_round + 1]

\* Election_Counter.active_candidates (lines 211-223): the keys of the dict
\* of the round.
active_candidates(c, voting_round) == DOMAIN VotesOfRound(c, voting_round)

\* dict.pop(key): the dict without the key.
Pop(dict, key) == [k \in DOMAIN dict \ {key} |-> dict[k]]

\* Election_Counter.cast_ballot (lines 178-209): a ballot with no preferred
\* candidate is discarded; otherwise the ballot is appended to the ballots
\* of its preferred candidate and its value added to the candidate's votes
\* of the current round.
cast_ballot(c, ballot) ==
    LET preferred_candidate == stv_preferred_active_candidate(ballot)
    IN  IF preferred_candidate = NoCandidate THEN c
        ELSE IF preferred_candidate \in DOMAIN c.ballots_for_candidate
        THEN [c EXCEPT
                 !.ballots_for_candidate[preferred_candidate] = Append(@, ballot),
                 !.votes_for_candidate_per_round[c.voting_round + 1]
                                                [preferred_candidate] =
                     Plus(@, ballot.vote_value)]
        ELSE [c EXCEPT
                 !.ballots_for_candidate =
                     [k \in DOMAIN @ \cup {preferred_candidate} |->
                         IF k = preferred_candidate THEN <<ballot>> ELSE @[k]],
                 !.votes_for_candidate_per_round[c.voting_round + 1] =
                     [k \in DOMAIN @ \cup {preferred_candidate} |->
                         IF k = preferred_candidate THEN ballot.vote_value
                         ELSE @[k]]]

\* Lines 424-425: the ballots are cast in the order of the list.
RECURSIVE CastInitial(_, _, _)
CastInitial(c, ballots, i) ==
    IF i > Len(ballots) THEN c
    ELSE The({CastInitial(next, ballots, i + 1) :
                 next \in {cast_ballot(c, ballots[i])}})

\* Election_Counter.advance_voting_round (lines 146-153).
advance_voting_round(c) ==
    [c EXCEPT !.voting_round = @ + 1,
              !.votes_for_candidate_per_round =
                  Append(@, VotesOfRound(c, c.voting_round))]

\* Election_Counter.candidates_reaching_quota (lines 259-284) over the
\* active candidates of the current round.
candidates_reaching_quota(c, quota) ==
    {candidate \in active_candidates(c, c.voting_round) :
        Leq(quota, VotesOfRound(c, c.voting_round)[candidate])}

\* Election_Counter.candidates_with_fewest_votes (lines 286-315).  Every
\* vote total is positive, so the sentinel -1 is never a total.  A candidate
\* that had no votes in the round has the total None, which Python 2 orders
\* below every number.
stv_candidates_with_fewest_votes(c, limit_to_candidates, voting_round) ==
    LET votes == VotesOfRound(c, voting_round)
        without == {candidate \in limit_to_candidates :
                       candidate \notin DOMAIN votes}
    IN  IF without # {} THEN without
        ELSE {candidate \in limit_to_candidates :
                 \A other \in limit_to_candidates :
                     Leq(votes[candidate], votes[other])}

\* Election.droop_quota (lines 391-401).
stv_droop_quota(num_ballots, seats) == Num((num_ballots \div (seats + 1)) + 1)

\* Lines 486-489: the tie is narrowed by the votes of the previous rounds,
\* the latest first.
RECURSIVE NarrowByPrevious(_, _, _)
NarrowByPrevious(c, tied_candidates, previous_voting_round) ==
    IF Cardinality(tied_candidates) > 1 /\ previous_voting_round >= 0
    THEN NarrowByPrevious(c,
             stv_candidates_with_fewest_votes(c, tied_candidates,
                                              previous_voting_round),
             previous_voting_round - 1)
    ELSE tied_candidates

\* Lines 327-329 and 355-357: the candidate is added to the winners or the
\* losers and popped from the ballots and from the votes of the round.
Declare(c, field, candidate) ==
    [c EXCEPT ![field] = @ \cup {candidate},
              !.ballots_for_candidate = Pop(@, candidate),
              !.votes_for_candidate_per_round[c.voting_round + 1] =
                  Pop(@, candidate)]

\* Lines 467-468: declare_winner for each of the candidates that fill the
\* seats; none has reached the quota, so no surplus is redistributed.
RECURSIVE DeclareAll(_, _)
DeclareAll(c, candidates) ==
    IF candidates = {} THEN c
    ELSE The({DeclareAll(Declare(c, "winning_candidates", candidate),
                         candidates \ {candidate}) :
                 candidate \in {The(candidates)}})

\* The copy of the first of the ballots still to be redistributed (line
\* 164), or no ballot.
NextBallot(candidate_ballots) ==
    IF candidate_ballots = <<>> THEN <<>> ELSE Head(candidate_ballots)

\* Election(seats=...) with its ballots and the call of compute_winners up
\* to the loop (lines 376-389, 412-425), with random final tie-breaks.
ComputeWinners ==
    /\ stv.pc = "new"
    /\ \E ballots \in StvBallotLists, seats \in 1..MaxStvSeats :
          /\ stv' = [pc |-> "round", seats |-> seats, ballots |-> ballots,
                     quota |-> stv_droop_quota(Len(ballots), seats)]
          /\ counter' = CastInitial(Election_Counter, ballots, 1)
    /\ UNCHANGED declaring
    /\ UNCHANGED <<election, standalone, call>>

\* Lines 427, 525-526: the seats are filled and the winners are returned.
WinnersReturn ==
    /\ stv.pc = "round"
    /\ ~(Cardinality(counter.winning_candidates) < stv.seats)
    /\ stv' = [stv EXCEPT !.pc = "returned"]
    /\ UNCHANGED <<counter, declaring>>
    /\ UNCHANGED <<election, standalone, call>>

\* Lines 427-441: a round in which candidates reach the quota.
RoundWinners ==
    /\ stv.pc = "round"
    /\ Cardinality(counter.winning_candidates) < stv.seats
    /\ \E c \in {advance_voting_round(counter)} :
          /\ candidates_reaching_quota(c, stv.quota) # {}
          /\ counter' = c
          /\ declaring' = [NoDeclaring EXCEPT !.winners_for_round =
                               candidates_reaching_quota(c, stv.quota)]
    /\ stv' = [stv EXCEPT !.pc = "declare"]
    /\ UNCHANGED <<election, standalone, call>>

\* Lines 441-442 and 327-336: the next of the winners of the round, in the
\* order of iteration of the set, is declared a winner; its ballots are to
\* be redistributed when its votes exceed the quota and it is not No
\* Confidence.
DeclareWinner ==
    /\ stv.pc = "declare"
    /\ \E winning_candidate \in declaring.winners_for_round :
          LET candidate_ballots == counter.ballots_for_candidate[winning_candidate]
              candidate_votes ==
                  VotesOfRound(counter, counter.voting_round)[winning_candidate]
              surplus == Less(stv.quota, candidate_votes)
                             /\ winning_candidate # NO_CONFIDENCE
          IN  /\ counter' = Declare(counter, "winning_candidates", winning_candidate)
              /\ declaring' =
                     [winners_for_round |->
                          declaring.winners_for_round \ {winning_candidate},
                      kind |-> IF surplus THEN "winner" ELSE "none",
                      candidate_ballots |->
                          IF surplus THEN candidate_ballots ELSE <<>>,
                      updated_ballot |->
                          IF surplus THEN NextBallot(candidate_ballots) ELSE <<>>,
                      surplus_multiplier |->
                          IF surplus
                          THEN Over(Minus(candidate_votes, stv.quota), candidate_votes)
                          ELSE Num(1)]
              /\ stv' = [stv EXCEPT !.pc = IF surplus THEN "update" ELSE "declare"]
    /\ UNCHANGED <<election, standalone, call>>

\* Lines 443-447: every winner of the round has been declared; the election
\* ends if No Confidence is among the winners.
WinnersDeclared ==
    /\ stv.pc = "declare"
    /\ declaring.winners_for_round = {}
    /\ stv' = [stv EXCEPT !.pc = IF NO_CONFIDENCE \in counter.winning_candidates
                                 THEN "returned" ELSE "round"]
    /\ declaring' = NoDeclaring
    /\ UNCHANGED counter
    /\ UNCHANGED <<election, standalone, call>>

\* Lines 427-437, 452-473: no candidate reaches the quota and the remaining
\* candidates fill the remaining seats, No Confidence discarded when it has
\* the fewest votes and is one too many.
RoundFill ==
    /\ stv.pc = "round"
    /\ Cardinality(counter.winning_candidates) < stv.seats
    /\ \E c \in {advance_voting_round(counter)} :
          LET remaining_candidates == active_candidates(c, c.voting_round)
              remaining_seats == stv.seats - Cardinality(c.winning_candidates)
              remaining_candidates_to_fill ==
                  IF Cardinality(remaining_candidates) = remaining_seats + 1
                  THEN remaining_candidates \ {NO_CONFIDENCE}
                  ELSE remaining_candidates
          IN  /\ candidates_reaching_quota(c, stv.quota) = {}
              /\ \/ Cardinality(remaining_candidates) <= remaining_seats
                 \/ /\ Cardinality(remaining_candidates) <= remaining_seats + 1
                    /\ NO_CONFIDENCE \in remaining_candidates
                    /\ NO_CONFIDENCE \in
                           stv_candidates_with_fewest_votes(c, remaining_candidates,
                                                            c.voting_round)
              /\ counter' = DeclareAll(c, remaining_candidates_to_fill)
    /\ stv' = [stv EXCEPT !.pc = "returned"]
    /\ UNCHANGED declaring
    /\ UNCHANGED <<election, standalone, call>>

\* Lines 427-437, 476-516 and 355-357: no candidate reaches the quota and
\* the seats cannot be filled; the candidate other than No Confidence with
\* the fewest votes, in this round and then in the previous ones, is
\* declared a loser, one of them at random if several remain, and its
\* ballots are to be redistributed.
RoundEliminate ==
    /\ stv.pc = "round"
    /\ Cardinality(counter.winning_candidates) < stv.seats
    /\ \E c \in {advance_voting_round(counter)} :
          LET remaining_candidates == active_candidates(c, c.voting_round)
              remaining_seats == stv.seats - Cardinality(c.winning_candidates)
          IN  /\ candidates_reaching_quota(c, stv.quota) = {}
              /\ ~(\/ Cardinality(remaining_candidates) <= remaining_seats
                   \/ /\ Cardinality(remaining_candidates) <= remaining_seats + 1
                      /\ NO_CONFIDENCE \in remaining_candidates
                      /\ NO_CONFIDENCE \in
                             stv_candidates_with_fewest_votes(c, remaining_candidates,
                                                              c.voting_round))
              /\ \E losing_candidate \in
                        NarrowByPrevious(c,
                            stv_candidates_with_fewest_votes(c,
                                remaining_candidates \ {NO_CONFIDENCE},
                                c.voting_round),
                            c.voting_round - 1) :
                    /\ counter' = Declare(c, "losing_candidates", losing_candidate)
                    /\ declaring' =
                           [NoDeclaring EXCEPT
                               !.kind = "loser",
                               !.candidate_ballots =
                                   c.ballots_for_candidate[losing_candidate],
                               !.updated_ballot =
                                   NextBallot(c.ballots_for_candidate[losing_candidate])]
    /\ stv' = [stv EXCEPT !.pc = "update"]
    /\ UNCHANGED <<election, standalone, call>>

\* One iteration of the loop of updated_ballot_for_eliminated_candidates
\* (lines 166-175) on the copy of the ballot being redistributed: the rank
\* is advanced by eliminate_preferred_candidate while the preferred
\* candidate has won or lost; when the loop is left the ballot is cast
\* (lines 341-342 with the surplus multiplier, or line 366) and the next
\* ballot is taken, or the declare_winner or declare_loser returns.
UpdateBallot ==
    /\ stv.pc = "update"
    /\ LET updated_ballot == declaring.updated_ballot
           preferred_candidate == stv_preferred_active_candidate(updated_ballot)
           rest == Tail(declaring.candidate_ballots)
       IN  IF \/ preferred_candidate = NoCandidate
              \/ ~is_candidate_eliminated(counter, preferred_candidate)
           THEN /\ counter' =
                       cast_ballot(counter,
                           IF declaring.kind = "winner"
                           THEN [updated_ballot EXCEPT !.vote_value =
                                    Times(@, declaring.surplus_multiplier)]
                           ELSE updated_ballot)
                /\ declaring' =
                       IF rest = <<>> /\ declaring.kind = "loser" THEN NoDeclaring
                       ELSE [declaring EXCEPT
                                !.candidate_ballots = rest,
                                !.updated_ballot = NextBallot(rest),
                                !.kind = IF rest = <<>> THEN "none" ELSE @]
                /\ stv' = [stv EXCEPT !.pc =
                              IF rest # <<>> THEN "update"
                              ELSE IF declaring.kind = "winner" THEN "declare"
                              ELSE "round"]
           ELSE /\ declaring' =
                       [declaring EXCEPT !.updated_ballot =
                           stv_eliminate_preferred_candidate(updated_ballot)]
                /\ UNCHANGED <<stv, counter>>
    /\ UNCHANGED <<election, standalone, call>>

StvNext ==
    \/ ComputeWinners
    \/ WinnersReturn
    \/ RoundWinners
    \/ DeclareWinner
    \/ WinnersDeclared
    \/ RoundFill
    \/ RoundEliminate
    \/ UpdateBallot

\* compute_winners of stv_compute.py.
StvSpec == Init /\ [][StvNext]_vars

\* compute_winners runs on: a step that can change the state is taken.
StvFairSpec == StvSpec /\ WF_vars(StvNext)

\* ------------------------------------------- the random sort on its own
\* The strings of at most MaxString characters of the uids, with or without
\* every character and with or without a character repeated.
SortStrings ==
    UNION {[1..n -> {"A", "B", "N", "C"}] : n \in 1..MaxString}

\* compute_results has reached the random tie-break of its first round
\* with two or more candidates tied, for some tie-break string.
SortInit ==
    /\ pc = "random"
    /\ given = <<>>
    /\ tiebreak_alphanumeric \in SortStrings
    /\ \E rt \in BOOLEAN, nc \in BOOLEAN :
          self = [ballots |-> <<>>, seats |-> 1,
                  can_eliminate_no_confidence |-> nc,
                  can_random_tiebreak |-> rt,
                  random_alphanumeric |-> tiebreak_alphanumeric]
    /\ heap = <<>>
    /\ ballots_active = <<>>
    /\ election_rounds = <<ElectionRound(VoteTracker)>>
    /\ ballots_exhausted = <<>>
    /\ candidates_elected = {}
    /\ candidates_eliminated = {}
    /\ ballots_for_candidate = <<>>
    /\ ballots_to_exhaust = <<>>
    /\ candidates_to_eliminate \in {S \in SUBSET Candidates : Cardinality(S) >= 2}
    /\ random_tiebreak_occurred = FALSE
    /\ ballots_active_tiebreak = <<>>
    /\ ballots_exhausted_tiebreak = <<>>
    /\ standalone = VoteTracker
    /\ call = NoCall
    /\ stv = NoElection
    /\ counter = Election_Counter
    /\ declaring = NoDeclaring

SortNext == RandomTiebreak \/ Eliminate

\* Lines 766-787 for every tie-break string and set of tied candidates.
SortSpec == SortInit /\ [][SortNext]_vars

\* ------------------------------------------- a VoteTracker on its own
\* The vote values cast into standalone.
CastValues == {Num(-1), Frac(-1, 2), Num(0), Frac(1, 2), Num(1)}

\* standalone.cast_vote_for_candidate(candidate, vote_value), for a candidate or
\* None and a vote value that may be negative.
CastVote ==
    /\ pc = "new"
    /\ \E candidate \in Candidates \cup {None}, vote_value \in CastValues :
          /\ Leq(Plus(standalone.votes_cast, vote_value), Num(MaxCast))
          /\ standalone' = cast_vote_for_candidate(standalone, candidate, vote_value)
          /\ call' = [op |-> "cast_vote_for_candidate", candidate |-> candidate,
                      vote_value |-> vote_value, candidates |-> {},
                      printed |-> CastPrinted(candidate, vote_value),
                      result |-> {}]
    /\ UNCHANGED election
    /\ UNCHANGED older

\* standalone.candidates_with_fewest_votes(candidates), for a set of candidates
\* that it may or may not have seen, iterated in any order.
FewestCall ==
    /\ pc = "new"
    /\ \E candidates \in SUBSET Candidates :
       \E result \in FewestVotes(standalone, candidates) :
           call' = [op |-> "candidates_with_fewest_votes", candidate |-> None,
                    vote_value |-> Num(0), candidates |-> candidates,
                    printed |-> "", result |-> result]
    /\ UNCHANGED standalone
    /\ UNCHANGED election
    /\ UNCHANGED older

TrackerNext == CastVote \/ FewestCall

\* A VoteTracker built empty and the calls of its methods.
TrackerSpec == Init /\ [][TrackerNext]_vars

\* ------------------------------------------------------------- properties
\* The results have been returned, or an exception has left compute_results.
Terminated == pc \in {"done", "raised"}

round(i) == election_rounds[i]

\* The candidates a round elected or eliminated.
DecidedIn(i) == round(i).candidates_elected \cup round(i).candidates_eliminated

\* The seats vacant when round i was counted.
SeatsVacantIn(i) ==
    self.seats - Cardinality(UNION {round(j).candidates_elected : j \in 1..(i - 1)})

\* Round i met the condition of the early fill (line 622).
EarlyFill(i) ==
    Cardinality(TrackerCandidates(round(i).vote_tracker)) <= SeatsVacantIn(i)

\* C2: every round that is followed by another round elected or eliminated
\* at least one candidate, none of them decided by an earlier round; and the
\* elimination step never works on an empty set of candidates.
EachRoundDecides ==
    /\ \A i \in 1..current_round :
          (i < current_round \/ pc = "loop") =>
              /\ DecidedIn(i) # {}
              /\ \A j \in 1..(i - 1) : DecidedIn(i) \cap DecidedIn(j) = {}
    /\ pc \in {"previous", "forward", "forward_loop", "random", "eliminate"} =>
          candidates_to_eliminate # {}

\* A call is about to count its third round or a later one, after a round
\* that elected and a round that eliminated.
EachRoundDecidesWitness ==
    /\ pc = "loop"
    /\ current_round >= 2
    /\ \E i, j \in 1..current_round :
          /\ round(i).candidates_elected # {}
          /\ round(j).candidates_eliminated # {}

\* C3: at every point of compute_results, and in its result, no more
\* candidates are elected than the Election has seats.
ElectedWithinSeats == Cardinality(candidates_elected) <= self.seats

\* The call has ended after a round in which two candidates reached the quota.
ElectedWithinSeatsWitness ==
    /\ pc = "done"
    /\ \E i \in 1..current_round :
          /\ ~EarlyFill(i)
          /\ Cardinality(round(i).candidates_elected) >= 2

\* C4: a candidate is elected in a round only if its tally in that round is
\* at least the quota of the round or, in a round of early fill, at least the
\* tally of No Confidence; and every elected candidate was elected in a round.
ElectedByQuotaOrFill ==
    /\ candidates_elected = UNION {round(i).candidates_elected : i \in 1..current_round}
    /\ \A i \in 1..current_round :
          \A candidate \in round(i).candidates_elected :
              LET tally == round(i).vote_tracker
                  votes == votes_for_candidate(tally, candidate)
              IN  IF EarlyFill(i)
                  THEN Leq(votes_for_candidate(tally, NoConfidence), votes)
                  ELSE Leq(droop_quota(SeatsVacantIn(i), tally.votes_cast), votes)

\* A round elected a candidate by the quota while another candidate of its
\* tally stayed below the quota, and a later round elected by early fill.
ElectedByQuotaOrFillWitness ==
    \E i, j \in 1..current_round :
        /\ ~EarlyFill(i)
        /\ round(i).candidates_elected # {}
        /\ TrackerCandidates(round(i).vote_tracker) \ round(i).candidates_elected # {}
        /\ EarlyFill(j)
        /\ round(j).candidates_elected # {}

\* The sum of the votes of the candidates of the set S in a tally.
RECURSIVE TallySum(_, _)
TallySum(tally, S) ==
    IF S = {} THEN Num(0)
    ELSE LET candidate == CHOOSE c \in S : TRUE
         IN  The({Plus(votes_for_candidate(tally, candidate), rest) :
                     rest \in {TallySum(tally, S \ {candidate})}})

\* The sum of the vote values of the ballots of a list, from its i-th on.
RECURSIVE Weight(_, _)
Weight(list, i) ==
    IF i > Len(list) THEN Num(0)
    ELSE The({Plus(heap[list[i]].vote_value, rest) : rest \in {Weight(list, i + 1)}})

\* C5: in every round, once the votes are counted and the exhausted ballots
\* set aside, the votes of the candidates of the tally add up to the tally's
\* votes_cast, and votes_cast is the sum of the vote values of the ballots
\* that are still active.
VoteConservation ==
    (\/ pc = "counted"
     \/ pc = "done" /\ current_round >= 1 /\ TrackerCandidates(vote_tracker) = {}) =>
        /\ TallySum(vote_tracker, TrackerCandidates(vote_tracker))
               = vote_tracker.votes_cast
        /\ Weight(ballots_active, 1) = vote_tracker.votes_cast

\* A second or later round has been counted with a ballot of a fractional
\* vote value, a ballot set aside as exhausted and two candidates with votes.
VoteConservationWitness ==
    /\ pc = "counted"
    /\ current_round >= 2
    /\ ballots_exhausted # <<>>
    /\ \E i \in 1..Len(ballots_active) : heap[ballots_active[i]].vote_value[2] # 1
    /\ \E c, d \in TrackerCandidates(vote_tracker) :
          /\ c # d
          /\ Less(Num(0), votes_for_candidate(vote_tracker, c))
          /\ Less(Num(0), votes_for_candidate(vote_tracker, d))

\* The random tie-break can sort the tied candidates: it is allowed and the
\* string holds every character of their uids.
CanSort ==
    /\ self.can_random_tiebreak
    /\ \A candidate \in candidates_to_eliminate :
          \A k \in 1..Len(candidate) : Index(tiebreak_alphanumeric, candidate[k]) # -1

\* C6: for given ballots, seats, flags and tie-break string, every step of
\* compute_results that iterates over a set of candidates has one outcome,
\* whatever the order of the iteration: the ballots after the transfer of the
\* surplus, the candidates with the fewest votes and whether they need a
\* tie-break, the outcome of the backward tie-break, of each pass of the
\* forward tie-break and of the random tie-break.
Deterministic ==
    /\ (/\ pc = "counted"
        /\ ~(Cardinality(TrackerCandidates(vote_tracker)) <= seats_vacant)
        /\ reaching_threshold # {}) => Cardinality(Surpluses) = 1
    /\ (/\ pc = "counted"
        /\ ~(Cardinality(TrackerCandidates(vote_tracker)) <= seats_vacant)
        /\ reaching_threshold = {}) => Cardinality(Losers) = 1
    /\ pc = "previous" =>
          Cardinality(PreviousRounds(candidates_to_eliminate, current_round - 1)) = 1
    /\ (pc = "forward_loop" /\ ForwardLoopCondition) =>
          \A st \in {ForwardCount([heap |-> heap, vote_tracker |-> VoteTracker,
                                   ballots_to_exhaust |-> <<>>],
                                  ballots_active_tiebreak,
                                  candidates_elected \cup candidates_eliminated,
                                  self.can_eliminate_no_confidence, 1)} :
              Cardinality(FewestVotes(st.vote_tracker, candidates_to_eliminate)) = 1
    /\ (pc = "random" /\ CanSort) => Cardinality(RandomLosers) = 1

\* The random tie-break is about to sort three tied candidates.
DeterministicWitness ==
    /\ pc = "random"
    /\ CanSort
    /\ Cardinality(candidates_to_eliminate) >= 3

\* C7: in a round of early fill with No Confidence in the tally, no candidate
\* is elected with strictly fewer votes than No Confidence.
NoConfidenceDominance ==
    \A i \in 1..current_round :
        (EarlyFill(i) /\ NoConfidence \in TrackerCandidates(round(i).vote_tracker)) =>
            \A candidate \in round(i).candidates_elected :
                ~Less(votes_for_candidate(round(i).vote_tracker, candidate),
                      votes_for_candidate(round(i).vote_tracker, NoConfidence))

\* A round of early fill elected No Confidence and left unelected a candidate
\* of the tally with fewer votes.
NoConfidenceDominanceWitness ==
    /\ pc = "done"
    /\ current_round >= 1
    /\ EarlyFill(current_round)
    /\ NoConfidence \in round(current_round).candidates_elected
    /\ TrackerCandidates(vote_tracker) \ round(current_round).candidates_elected # {}

\* C8: once No Confidence is elected, by the quota or by early fill, the
\* election is over: the round that elected it is the last one and
\* compute_results has left its loop, also with seats still vacant.
NoConfidenceEndsElection ==
    NoConfidence \in candidates_elected =>
        /\ pc = "done"
        /\ NoConfidence \in round(current_round).candidates_elected
        /\ round(current_round).candidates_eliminated = {}

\* No Confidence reached the quota while seats stayed vacant and ballots
\* were still active.
NoConfidenceEndsElectionWitness ==
    /\ NoConfidence \in candidates_elected
    /\ ~EarlyFill(current_round)
    /\ Cardinality(candidates_elected) < self.seats
    /\ ballots_active # <<>>

\* C9: when No Confidence cannot be eliminated, it is in no round's set of
\* eliminated candidates and is never among the candidates to eliminate.
NoConfidenceNeverEliminated ==
    (pc # "new" /\ ~self.can_eliminate_no_confidence) =>
        /\ NoConfidence \notin candidates_eliminated
        /\ NoConfidence \notin candidates_to_eliminate
        /\ \A i \in 1..current_round : NoConfidence \notin round(i).candidates_eliminated

\* No Confidence cannot be eliminated and a round eliminated, after a random
\* tie-break, a candidate with no fewer votes than No Confidence had.
NoConfidenceNeverEliminatedWitness ==
    /\ ~self.can_eliminate_no_confidence
    /\ \E i \in 1..current_round :
          /\ round(i).random_tiebreak_occurred
          /\ NoConfidence \in TrackerCandidates(round(i).vote_tracker)
          /\ \E candidate \in round(i).candidates_eliminated :
                Leq(votes_for_candidate(round(i).vote_tracker, NoConfidence),
                    votes_for_candidate(round(i).vote_tracker, candidate))

\* C10: compute_results leaves the ballots of Election.ballots, which are the
\* ballots of its result, as they were handed to the Election: the same
\* candidates, vote value and preferred rank.
CallerBallotsUnchanged ==
    /\ Len(self.ballots) = Len(given)
    /\ \A i \in 1..Len(given) : heap[self.ballots[i]] = given[i]

\* The call has ended with a working copy of a ballot scaled down and a
\* working copy moved on to a later preference.
CallerBallotsUnchangedWitness ==
    /\ pc = "done"
    /\ \E i, j \in 1..Len(given) :
          /\ heap[Len(given) + i].vote_value # given[i].vote_value
          /\ heap[Len(given) + j].preferred_active_rank
                # given[j].preferred_active_rank

\* ------------------------------------------------------- the elimination
\* The candidates of S with the fewest votes in a tally.
Fewest(tally, S) ==
    {c \in S : \A d \in S : Leq(votes_for_candidate(tally, c),
                                votes_for_candidate(tally, d))}

\* The candidates of the current tally that may be eliminated.
Eligible ==
    {c \in TrackerCandidates(vote_tracker) :
        self.can_eliminate_no_confidence \/ c # NoConfidence}

\* compute_results is in the elimination step of the current round.
Eliminating == pc \in {"previous", "forward", "forward_loop", "random", "eliminate"}

\* Two or more eligible candidates tie for the fewest votes of the current
\* tally.
Tie == Cardinality(Fewest(vote_tracker, Eligible)) >= 2

\* The tied candidates have together strictly fewer votes than the eligible
\* candidate with the fewest votes outside the tie.
CombinedBelowNext ==
    /\ Tie
    /\ \E next \in Fewest(vote_tracker, Eligible \ Fewest(vote_tracker, Eligible)) :
          Less(TallySum(vote_tracker, Fewest(vote_tracker, Eligible)),
               votes_for_candidate(vote_tracker, next))

TiedEliminatedTogether ==
    /\ (Eliminating /\ CombinedBelowNext) =>
          /\ pc = "eliminate"
          /\ candidates_to_eliminate = Fewest(vote_tracker, Eligible)
          /\ ~random_tiebreak_occurred
    /\ (/\ pc = "loop"
        /\ current_round >= 1
        /\ round(current_round).candidates_elected = {}
        /\ CombinedBelowNext) =>
          /\ round(current_round).candidates_eliminated = Fewest(vote_tracker, Eligible)
          /\ ~round(current_round).random_tiebreak_occurred

\* A round has eliminated together two candidates that had votes.
TiedEliminatedTogetherWitness ==
    /\ pc = "loop"
    /\ current_round >= 1
    /\ round(current_round).candidates_elected = {}
    /\ CombinedBelowNext
    /\ Cardinality(round(current_round).candidates_eliminated) >= 2
    /\ \E c \in round(current_round).candidates_eliminated :
          Less(Num(0), votes_for_candidate(vote_tracker, c))

\* The tied candidates narrowed with the tallies of round i, then of the
\* rounds before it, for as long as more than one candidate is tied.
RECURSIVE NarrowBack(_, _)
NarrowBack(tied, i) ==
    IF Cardinality(tied) > 1 /\ i >= 1
    THEN NarrowBack(Fewest(round(i).vote_tracker, tied), i - 1)
    ELSE tied

\* C13: the backward tie-break leaves the tied candidates narrowed with the
\* tallies of the earlier rounds, from the round before the current one back
\* to the first, each round keeping the tied candidates with the fewest votes
\* in it, until one candidate is left or the first round has been used; one
\* candidate left goes to the elimination, which records it, and more than
\* one go on to the forward tie-break.
BackwardNarrows ==
    [][/\ pc = "previous" =>
             /\ candidates_to_eliminate'
                    = NarrowBack(candidates_to_eliminate, current_round - 1)
             /\ pc' = IF Cardinality(candidates_to_eliminate') = 1
                      THEN "eliminate" ELSE "forward"
       /\ (pc = "eliminate" /\ ~random_tiebreak_occurred) =>
             election_rounds'[current_round].candidates_eliminated
                 = candidates_to_eliminate
      ]_vars

\* In a third or later round a tie that needed a tie-break was narrowed to
\* one candidate by the backward tie-break.
BackwardNarrowsWitness ==
    /\ pc = "eliminate"
    /\ current_round >= 3
    /\ Tie
    /\ ~CombinedBelowNext
    /\ Cardinality(candidates_to_eliminate) = 1
    /\ candidates_to_eliminate
           = NarrowBack(Fewest(vote_tracker, Eligible), current_round - 1)

\* No Confidence when it cannot be eliminated.
Protected(candidate) ==
    ~self.can_eliminate_no_confidence /\ IsNoConfidence(candidate)

\* Another pass of the forward tie-break would advance the projected ballot
\* to a candidate that is neither elected nor eliminated, and count it.
HasLivePreference(ballot) ==
    /\ preferred_active_candidate(ballot) # None
    /\ ~Protected(preferred_active_candidate(ballot))
    /\ \E next \in {SkipDecided(eliminate_preferred_candidate(ballot),
                                candidates_elected \cup candidates_eliminated)} :
          /\ preferred_active_candidate(next) # None
          /\ ~Protected(preferred_active_candidate(next))

\* C14: the forward tie-break is not left for the random tie-break, more
\* than one candidate being tied, while a projected ballot that is still
\* active has a live preference to advance to.
ForwardUntilExhausted ==
    pc = "random" =>
        \A i \in 1..Len(ballots_active_tiebreak) :
            ~HasLivePreference(heap[ballots_active_tiebreak[i]])

\* C15: a tie that reaches the random tie-break with random tie-breaks
\* allowed ends in the elimination of exactly one candidate, the tied
\* candidate other than No Confidence whose uid comes first in the order of
\* the tie-break string, and random_tiebreak_occurred is true for the round.
RandomEliminatesFirst ==
    [][(pc = "random" /\ self.can_random_tiebreak) =>
          /\ pc' = "eliminate"
          /\ random_tiebreak_occurred'
          /\ \E c \in candidates_to_eliminate \ {NoConfidence} :
                /\ candidates_to_eliminate' = {c}
                /\ \A d \in candidates_to_eliminate \ {NoConfidence, c} :
                      ListLess(SortKey(c), SortKey(d))
      ]_vars

\* C16: when a tie reaches the random tie-break and can_random_tiebreak is
\* false, compute_results ends there: the round elects and eliminates
\* nobody, the eliminated candidates and the recorded rounds stay as they
\* are, and the elected candidates are those of the earlier rounds.
HaltsOnUnresolvedTie ==
    [][(pc = "random" /\ ~self.can_random_tiebreak) =>
          /\ pc' = "done"
          /\ candidates_eliminated' = candidates_eliminated
          /\ election_rounds' = election_rounds
          /\ round(current_round).candidates_elected = {}
          /\ round(current_round).candidates_eliminated = {}
          /\ candidates_elected'
                 = UNION {round(i).candidates_elected : i \in 1..(current_round - 1)}
      ]_vars

\* The call has ended on an unresolved tie after a round that elected.
HaltsOnUnresolvedTieWitness ==
    /\ pc = "done"
    /\ ~self.can_random_tiebreak
    /\ random_tiebreak_occurred
    /\ Cardinality(candidates_to_eliminate) > 1
    /\ candidates_elected # {}

\* The sum of the vote values that the ballots of a list, from its i-th on,
\* have in the heap h.
RECURSIVE WeightIn(_, _, _)
WeightIn(h, list, i) ==
    IF i > Len(list) THEN Num(0)
    ELSE The({Plus(h[list[i]].vote_value, rest) : rest \in {WeightIn(h, list, i + 1)}})

\* The ballots counted for a candidate in the current round.
BallotsFor(candidate) ==
    IF candidate \in DOMAIN ballots_for_candidate
    THEN ballots_for_candidate[candidate]
    ELSE <<>>

\* C17: in the step that elects by the quota q, every ballot counted for an
\* elected candidate other than No Confidence, with v votes, has its vote
\* value multiplied by (v - q) / v, so that the candidate's ballots carry
\* v - q votes together; the ballots counted for a candidate that is not
\* elected keep their vote value; and in every count a ballot of vote value
\* 0 is set aside as exhausted, the active ballots having a positive value.
SurplusTransferred ==
    /\ [][(/\ pc = "counted"
           /\ ~EarlyFill(current_round)
           /\ election_rounds'[current_round].candidates_elected # {}) =>
             LET q == election_rounds'[current_round].threshold
                 elected == election_rounds'[current_round].candidates_elected
             IN  /\ \A c \in elected \ {NoConfidence} :
                       LET v == votes_for_candidate(vote_tracker, c)
                       IN  /\ \A k \in 1..Len(BallotsFor(c)) :
                                 heap'[BallotsFor(c)[k]].vote_value
                                     = Times(heap[BallotsFor(c)[k]].vote_value,
                                             Over(Minus(v, q), v))
                           /\ WeightIn(heap', BallotsFor(c), 1) = Minus(v, q)
                 /\ \A c \in TrackerCandidates(vote_tracker) \ elected :
                       \A k \in 1..Len(BallotsFor(c)) :
                           heap'[BallotsFor(c)[k]].vote_value
                               = heap[BallotsFor(c)[k]].vote_value
         ]_vars
    /\ [](pc = "counted" =>
             \A k \in 1..Len(ballots_active) :
                 Less(Num(0), heap[ballots_active[k]].vote_value))

\* A round elected, by the quota, a candidate with more votes than the
\* quota while another candidate of its tally, not elected, had votes; the
\* next round has been counted.
SurplusTransferredWitness ==
    /\ pc = "counted"
    /\ current_round >= 2
    /\ ~EarlyFill(current_round - 1)
    /\ \E d \in round(current_round - 1).candidates_elected \ {NoConfidence} :
          Less(round(current_round - 1).threshold,
               votes_for_candidate(round(current_round - 1).vote_tracker, d))
    /\ \E e \in TrackerCandidates(round(current_round - 1).vote_tracker)
                   \ round(current_round - 1).candidates_elected :
          Less(Num(0), votes_for_candidate(round(current_round - 1).vote_tracker, e))

\* Round i went on to the quota: its tally was not empty and held more
\* candidates than seats were vacant, and the round is past its count.
ReachedQuota(i) ==
    /\ TrackerCandidates(round(i).vote_tracker) # {}
    /\ ~EarlyFill(i)
    /\ i < current_round \/ pc # "counted"

\* The election of test_2_candidates_1_seat, for 1 seat.
TwoCandidatesOneSeat ==
    /\ given = Repeat(<<<<"A">>, <<"B">>>>, 5) \o Repeat(<<<<"B">>, <<"A">>>>, 10)
    /\ self.seats = 1

\* C18: the threshold recorded by a round that went on to the quota is the
\* votes cast in the round, divided by one more than the seats vacant at its
\* start, plus 1, as an exact fraction; and the election of 5 ballots [A, B]
\* and 10 ballots [B, A] for 1 seat ends after one round with the threshold
\* 17/2, the tallies A = 5 and B = 10, and B elected.
ThresholdIsDroopQuota ==
    /\ \A i \in 1..current_round :
          ReachedQuota(i) =>
              round(i).threshold
                  = Plus(Over(round(i).vote_tracker.votes_cast,
                              Num(SeatsVacantIn(i) + 1)),
                         Num(1))
    /\ (TwoCandidatesOneSeat /\ pc = "done") =>
          /\ current_round = 1
          /\ round(1).threshold = <<17, 2>>
          /\ round(1).vote_tracker.votes_for_candidate
                 = [c \in {<<"A">>, <<"B">>} |->
                       IF c = <<"A">> THEN Num(5) ELSE Num(10)]
          /\ round(1).candidates_elected = {<<"B">>}
          /\ candidates_elected = {<<"B">>}

\* Three rounds went on to the quota, with three different thresholds, the
\* votes cast and the seats vacant both having changed.
ThresholdIsDroopQuotaWitness ==
    /\ current_round >= 3
    /\ \A i \in 1..3 : ReachedQuota(i)
    /\ round(1).threshold # round(2).threshold
    /\ round(2).threshold # round(3).threshold
    /\ round(1).vote_tracker.votes_cast # round(3).vote_tracker.votes_cast
    /\ SeatsVacantIn(1) # SeatsVacantIn(3)

\* The election of test_1_candidate_1_seat.
OneCandidateOneSeat ==
    /\ given = Repeat(<<<<"A">>>>, 10)
    /\ self.seats = 1

\* C19: the election of 10 ballots [A] for 1 seat ends with exactly A
\* elected and exactly one round, whose recorded threshold is 6.
OneCandidateQuota ==
    (OneCandidateOneSeat /\ pc = "done") =>
        /\ candidates_elected = {<<"A">>}
        /\ current_round = 1
        /\ round(1).threshold = Num(6)

\* The Election was given at least one ballot, and each of its ballots ranks
\* the candidate c and nobody else.
OnlyCandidate(c) ==
    /\ given # <<>>
    /\ \A i \in 1..Len(given) : given[i].candidates = <<c>>

\* C20: the call of an Election of 0 seats counts no round and elects
\* nobody; the call of an Election of 1 seat or more whose ballots, at least
\* one, all rank one and the same candidate and nobody else counts one
\* round, which elects that candidate, and returns.
BoundaryElections ==
    /\ (pc # "new" /\ self.seats = 0) =>
          /\ pc \in {"loop", "done"}
          /\ election_rounds = <<>>
          /\ candidates_elected = {}
    /\ \A c \in Candidates :
          (pc # "new" /\ self.seats >= 1 /\ OnlyCandidate(c)) =>
              /\ pc \in {"loop", "counted", "done"}
              /\ pc = "loop" => election_rounds = <<>>
              /\ pc = "done" =>
                    /\ current_round = 1
                    /\ round(1).candidates_elected = {c}
                    /\ candidates_elected = {c}

\* The call has returned for two seats or more and several ballots that all
\* rank No Confidence alone.
BoundaryElectionsWitness ==
    /\ pc = "done"
    /\ self.seats >= 2
    /\ Len(given) >= 2
    /\ OnlyCandidate(NoConfidence)

\* ------------------------------------------------------- the early fill
\* The votes of a candidate in the tally of round i.
VotesIn(i, candidate) == votes_for_candidate(round(i).vote_tracker, candidate)

\* Round i has been resolved by the early fill.
Filled(i) ==
    /\ TrackerCandidates(round(i).vote_tracker) # {}
    /\ EarlyFill(i)
    /\ i < current_round \/ pc # "counted"

RanksTwice(ballot) ==
    \E i, j \in 1..Len(ballot.candidates) :
        i # j /\ ballot.candidates[i] = ballot.candidates[j]

\* The sum of the vote values of the given ballots, from the i-th on, that
\* rank no candidate more than once.
RECURSIVE WellFormedVotes(_)
WellFormedVotes(i) ==
    IF i > Len(given) THEN Num(0)
    ELSE IF RanksTwice(given[i]) THEN WellFormedVotes(i + 1)
    ELSE The({Plus(given[i].vote_value, rest) : rest \in {WellFormedVotes(i + 1)}})

\* C22: a ballot that ranks the same candidate more than once adds nothing
\* to the totals of any round: the votes cast in a round are at most the
\* votes of the given ballots that rank no candidate twice, and a candidate
\* ranked only on ballots that rank a candidate twice is in no tally.
DuplicateRankedNotCounted ==
    \A i \in 1..current_round :
        /\ Leq(round(i).vote_tracker.votes_cast, WellFormedVotes(1))
        /\ \A c \in TrackerCandidates(round(i).vote_tracker) :
              \E k \in 1..Len(given) :
                  ~RanksTwice(given[k]) /\ c \in Range(given[k].candidates)

\* ------------------------------------------------- the VoteTracker's calls
\* C23: after any sequence of calls of cast_vote_for_candidate on a
\* VoteTracker built empty, accepted or rejected, votes_cast is the sum of
\* the votes recorded for the candidates.
CastSumsToVotesCast ==
    TallySum(standalone, TrackerCandidates(standalone)) = standalone.votes_cast

\* A call has just been rejected on a tracker that holds votes for two
\* candidates, one of them with a fractional total, and a candidate
\* without votes.
CastSumsToVotesCastWitness ==
    /\ call.op = "cast_vote_for_candidate"
    /\ call.printed # ""
    /\ \E c, d, e \in TrackerCandidates(standalone) :
          /\ c # d
          /\ votes_for_candidate(standalone, c)[2] # 1
          /\ Less(Num(0), votes_for_candidate(standalone, d))
          /\ votes_for_candidate(standalone, e) = Num(0)

\* C24: a call of cast_vote_for_candidate with the candidate None or with a
\* negative vote value prints an error and leaves the tracker as it was:
\* votes_cast, the candidates tracked and the votes of each; any other call
\* prints nothing, adds the value to votes_cast and to the votes of the
\* candidate, which is tracked from then on, and changes the votes of no
\* other candidate.
CastRejectsOrAdds ==
    [][(call'.op = "cast_vote_for_candidate"
        /\ <<standalone, call>>' # <<standalone, call>>) =>
           LET candidate == call'.candidate
               vote_value == call'.vote_value
           IN  IF candidate = None \/ Less(vote_value, Num(0))
               THEN /\ call'.printed # ""
                    /\ standalone' = standalone
               ELSE /\ call'.printed = ""
                    /\ standalone'.votes_cast = Plus(standalone.votes_cast, vote_value)
                    /\ TrackerCandidates(standalone')
                           = TrackerCandidates(standalone) \cup {candidate}
                    /\ votes_for_candidate(standalone', candidate)
                           = Plus(votes_for_candidate(standalone, candidate), vote_value)
                    /\ \A other \in TrackerCandidates(standalone') \ {candidate} :
                           votes_for_candidate(standalone', other)
                               = votes_for_candidate(standalone, other)]_vars

\* A negative vote for a candidate the tracker has not seen has just been
\* rejected on a tracker that holds votes, after an accepted call.
CastRejectsOrAddsWitness ==
    /\ call.op = "cast_vote_for_candidate"
    /\ call.candidate # None
    /\ Less(call.vote_value, Num(0))
    /\ call.printed # ""
    /\ call.candidate \notin TrackerCandidates(standalone)
    /\ Less(Num(0), standalone.votes_cast)

\* C25: candidates_with_fewest_votes(S) returns exactly the candidates of S
\* whose votes, 0 for a candidate the tracker has never seen, are the
\* minimum over S, in whatever order S is iterated: all the candidates tied
\* for the minimum, and the empty set only when S is empty.
FewestIsWholeTie ==
    call.op = "candidates_with_fewest_votes" =>
        /\ call.result
               = {c \in call.candidates :
                     \A d \in call.candidates :
                         Leq(IF c \in TrackerCandidates(standalone)
                             THEN standalone.votes_for_candidate[c] ELSE Num(0),
                             IF d \in TrackerCandidates(standalone)
                             THEN standalone.votes_for_candidate[d] ELSE Num(0))}
        /\ call.result = {} <=> call.candidates = {}

\* The call returned two tied candidates, one of them never seen by the
\* tracker and one seen without votes, out of a set with a third candidate
\* that has votes.
FewestIsWholeTieWitness ==
    /\ call.op = "candidates_with_fewest_votes"
    /\ Cardinality(call.result) >= 2
    /\ call.result \ TrackerCandidates(standalone) # {}
    /\ call.result \cap TrackerCandidates(standalone) # {}
    /\ call.candidates \ call.result # {}

\* ------------------------------------------------------ the ballots' ranks
\* The ballot's preferred rank is that of one of its candidates.
HasActivePreference(ballot) ==
    /\ 0 <= ballot.preferred_active_rank
    /\ ballot.preferred_active_rank < Len(ballot.candidates)

\* The ballots of compute_results whose references outlast the step taken:
\* the Election's and the working copies, and within the forward tie-break
\* its copies too.
Lasting ==
    LiveBallots \cup
    (IF pc = "forward_loop"
     THEN Range(ballots_active_tiebreak) \cup Range(ballots_exhausted_tiebreak)
     ELSE {})

\* C26: on each ballot that compute_results works with,
\* eliminate_preferred_candidate raises the preferred rank by exactly one
\* and prints nothing when the ballot has an active preference, and
\* otherwise prints an error and leaves the ballot as it is; and in every
\* step of compute_results no ballot's preferred rank decreases, and it
\* never exceeds the number of candidates the ballot ranks.
RankAdvancesByOne ==
    /\ [](\A r \in DOMAIN heap :
             /\ heap[r].preferred_active_rank <= Len(heap[r].candidates)
             /\ IF HasActivePreference(heap[r])
                THEN /\ eliminate_preferred_candidate(heap[r])
                            = Ballot(heap[r].candidates,
                                     heap[r].preferred_active_rank + 1,
                                     heap[r].vote_value)
                     /\ EliminatePrinted(heap[r]) = ""
                ELSE /\ eliminate_preferred_candidate(heap[r]) = heap[r]
                     /\ EliminatePrinted(heap[r]) # "")
    /\ [][\A r \in Lasting :
              /\ r \in DOMAIN heap'
              /\ heap'[r].candidates = heap[r].candidates
              /\ heap'[r].preferred_active_rank >= heap[r].preferred_active_rank]_vars

\* A round has been counted with a ballot set aside past the last of its
\* two or more candidates and an active ballot on its second preference.
RankAdvancesByOneWitness ==
    /\ pc = "counted"
    /\ \E i \in 1..Len(ballots_exhausted) :
          /\ Len(heap[ballots_exhausted[i]].candidates) >= 2
          /\ ~HasActivePreference(heap[ballots_exhausted[i]])
    /\ \E i \in 1..Len(ballots_active) :
          /\ heap[ballots_active[i]].preferred_active_rank = 1
          /\ HasActivePreference(heap[ballots_active[i]])

\* ------------------------------------------------- the exhausted ballots
\* The votes of the current round have been counted and its exhausted
\* ballots set aside, and the round has not gone further.
Counted ==
    \/ pc = "counted"
    \/ pc = "done" /\ current_round >= 1 /\ TrackerCandidates(vote_tracker) = {}

\* The working copies of the Election's ballots (line 554).
WorkingCopies == {Len(given) + i : i \in 1..Len(given)}

\* C27: once a round has counted the votes, every ballot still active has
\* a vote value above 0 and a preferred candidate that is neither elected
\* nor eliminated, every other working ballot is in the list of exhausted
\* ballots, and only active ballots are recorded for a candidate; and a
\* ballot in the list of exhausted ballots stays there and is never active
\* again.
ExhaustedSetAside ==
    /\ [](Counted =>
            /\ \A r \in Range(ballots_active) :
                  /\ Less(Num(0), heap[r].vote_value)
                  /\ preferred_active_candidate(heap[r])
                         \notin {None} \cup candidates_elected \cup candidates_eliminated
            /\ Range(ballots_active) \cup Range(ballots_exhausted) = WorkingCopies
            /\ Range(ballots_active) \cap Range(ballots_exhausted) = {}
            /\ \A c \in DOMAIN ballots_for_candidate :
                   Range(ballots_for_candidate[c]) \subseteq Range(ballots_active))
    /\ [][\A r \in Range(ballots_exhausted) :
              /\ r \in Range(ballots_exhausted')
              /\ r \notin Range(ballots_active')]_vars

\* A second or later round has been counted with ballots still active, a
\* ballot set aside for its vote value of 0 and a ballot set aside for want
\* of a preference.
ExhaustedSetAsideWitness ==
    /\ pc = "counted"
    /\ current_round >= 2
    /\ ballots_active # <<>>
    /\ \E r \in Range(ballots_exhausted) :
          /\ heap[r].vote_value = Num(0)
          /\ preferred_active_candidate(heap[r]) # None
    /\ \E r \in Range(ballots_exhausted) :
          /\ Less(Num(0), heap[r].vote_value)
          /\ preferred_active_candidate(heap[r]) = None

\* --------------------------------------------------- the eliminated
\* The candidates of the tally of round i that may be eliminated.
EligibleIn(i) ==
    {c \in TrackerCandidates(round(i).vote_tracker) :
        self.can_eliminate_no_confidence \/ ~IsNoConfidence(c)}

\* C28: every candidate a round eliminates, or is about to eliminate, is a
\* candidate of the round's tally that may be eliminated, and no candidate
\* of the tally that may be eliminated has strictly fewer votes in it.
EliminatedHaveFewest ==
    /\ \A i \in 1..current_round :
          \A c \in round(i).candidates_eliminated :
              /\ c \in EligibleIn(i)
              /\ \A d \in EligibleIn(i) : ~Less(VotesIn(i, d), VotesIn(i, c))
    /\ Eliminating =>
          \A c \in candidates_to_eliminate :
              /\ c \in EligibleIn(current_round)
              /\ \A d \in EligibleIn(current_round) :
                    ~Less(VotesIn(current_round, d), VotesIn(current_round, c))

\* A round eliminated a candidate that had more votes than No Confidence,
\* which cannot be eliminated, and fewer than another candidate.
EliminatedHaveFewestWitness ==
    /\ pc # "new"
    /\ ~self.can_eliminate_no_confidence
    /\ \E i \in 1..current_round :
          /\ NoConfidence \in TrackerCandidates(round(i).vote_tracker)
          /\ \E c \in round(i).candidates_eliminated :
                /\ Less(VotesIn(i, NoConfidence), VotesIn(i, c))
                /\ \E d \in EligibleIn(i) : Less(VotesIn(i, c), VotesIn(i, d))

\* C29: when a round fills the vacant seats with No Confidence in its
\* tally, every candidate it elects other than No Confidence has strictly
\* more votes than No Confidence: a candidate with as many votes as No
\* Confidence is not elected.
OnlyAboveNoConfidence ==
    \A i \in 1..current_round :
        (Filled(i) /\ NoConfidence \in TrackerCandidates(round(i).vote_tracker)) =>
            \A c \in round(i).candidates_elected \ {NoConfidence} :
                Less(VotesIn(i, NoConfidence), VotesIn(i, c))

\* ------------------------------------------------- the forward tie-break
\* C30: no step of the forward tie-break changes the state of the election:
\* the lists of active and of exhausted ballots and each of their ballots
\* (candidates, preferred rank and vote value), the candidates elected and
\* eliminated and the rounds recorded are after the step what they were
\* before it.
ForwardLeavesElection ==
    [][(pc = "forward" \/ pc = "forward_loop") =>
          /\ ballots_active' = ballots_active
          /\ ballots_exhausted' = ballots_exhausted
          /\ \A r \in Range(ballots_active) \cup Range(ballots_exhausted) :
                r \in DOMAIN heap' /\ heap'[r] = heap[r]
          /\ candidates_elected' = candidates_elected
          /\ candidates_eliminated' = candidates_eliminated
          /\ election_rounds' = election_rounds]_vars

\* The forward tie-break has narrowed the tie to one candidate, with a copy
\* moved on to a later preference than any active ballot of the election
\* and a copy set aside.
ForwardLeavesElectionWitness ==
    /\ pc = "forward_loop"
    /\ Cardinality(candidates_to_eliminate) = 1
    /\ Len(ballots_active_tiebreak) < Len(ballots_active)
    /\ \E r \in Range(ballots_active_tiebreak) :
          \A q \in Range(ballots_active) :
              heap[r].preferred_active_rank > heap[q].preferred_active_rank

\* ------------------------------------------------------ the round records
\* The current round has ended: compute_results is back at the head of its
\* loop or has left it.
RoundEnded == pc \in {"loop", "done", "raised"}

\* C31: a step of compute_results appends a round record exactly when it
\* opens a round, and then one record; the tally of a record is never
\* changed, and the record of a round that has ended (threshold, tally,
\* candidates elected and eliminated, flag of the random tie-break) is never
\* changed by a later step, so that the backward tie-break reads the
\* tallies of the earlier rounds as they were counted.
RoundRecordsKept ==
    [][/\ IF pc = "loop" /\ pc' # "loop" /\ Cardinality(candidates_elected) < self.seats
          THEN Len(election_rounds') = Len(election_rounds) + 1
          ELSE Len(election_rounds') = Len(election_rounds)
       /\ \A i \in 1..Len(election_rounds) :
             /\ election_rounds'[i].vote_tracker = election_rounds[i].vote_tracker
             /\ (i < Len(election_rounds) \/ RoundEnded) =>
                    election_rounds'[i] = election_rounds[i]]_vars

\* The backward tie-break of a third or later round is about to read the
\* tallies of two earlier rounds that differ, one of which elected and one
\* of which eliminated.
RoundRecordsKeptWitness ==
    /\ pc = "previous"
    /\ current_round >= 3
    /\ round(1).vote_tracker # round(2).vote_tracker
    /\ \E i, j \in 1..(current_round - 1) :
          /\ round(i).candidates_elected # {}
          /\ round(j).candidates_eliminated # {}

\* ------------------------------------------------------ the vote values
\* The round counted is about to compute the surplus of its winners.
Electing ==
    /\ pc = "counted"
    /\ ~(Cardinality(TrackerCandidates(vote_tracker)) <= seats_vacant)
    /\ reaching_threshold # {}

\* C32: whenever the multiplier of a surplus is computed, the elected
\* candidate has more than 0 votes and ballots counted for it, and the
\* multiplier is at least 0 and less than 1; compute_results never fails in
\* this computation; and from the vote values handed to the Election, none
\* negative, no step makes the vote value of a ballot negative or greater
\* than it was.
MultiplierBelowOne ==
    /\ [](Electing =>
            \A candidate \in reaching_threshold :
                LET votes == votes_for_candidate(vote_tracker, candidate)
                IN  /\ Less(Num(0), votes)
                    /\ candidate \in DOMAIN ballots_for_candidate
                    /\ Leq(Num(0), Over(Minus(votes, threshold_of_round), votes))
                    /\ Less(Over(Minus(votes, threshold_of_round), votes), Num(1)))
    /\ [](\A r \in DOMAIN heap : Leq(Num(0), heap[r].vote_value))
    /\ [][/\ Electing => pc' # "raised"
          /\ \A r \in Lasting :
                Leq(heap'[r].vote_value, heap[r].vote_value)]_vars

\* A round has elected by the quota and left a working ballot with a vote
\* value above 0 and below the value it was given with, and an earlier
\* round left a working ballot without value.
MultiplierBelowOneWitness ==
    /\ pc = "loop"
    /\ current_round >= 2
    /\ round(current_round).candidates_elected # {}
    /\ \E i \in 1..Len(given) :
          /\ Less(Num(0), heap[Len(given) + i].vote_value)
          /\ Less(heap[Len(given) + i].vote_value, given[i].vote_value)
    /\ \E i \in 1..Len(given) : heap[Len(given) + i].vote_value = Num(0)

\* ------------------------------------------------- the number of rounds
\* The candidates that appear on the ballots handed to the Election.
Named == UNION {Range(given[i].candidates) : i \in 1..Len(given)}

\* C33: when the ballots handed to the Election name at least one
\* candidate, compute_results never records more rounds than the ballots
\* name candidates.
RoundsWithinCandidates ==
    Named # {} => current_round <= Cardinality(Named)

\* compute_results has returned after as many rounds as the ballots name
\* candidates, three or more.
RoundsWithinCandidatesWitness ==
    /\ pc = "done"
    /\ Cardinality(Named) >= 3
    /\ current_round = Cardinality(Named)

\* ------------------------------------------- the ballots of the eliminated
\* The candidate of the ballot, at its preferred rank or after it, that is
\* the first not in the set decided, or None.
NextPreference(ballot, decided) ==
    LET ranks == {k \in 1..Len(ballot.candidates) :
                     /\ k > ballot.preferred_active_rank
                     /\ ballot.candidates[k] \notin decided}
    IN  IF ranks = {} THEN None
        ELSE ballot.candidates[CHOOSE k \in ranks : \A j \in ranks : k <= j]

\* The election of test_3_candidates_1_seat.
ThreeCandidatesOneSeat ==
    /\ given = Repeat(<<<<"A">>, <<"A", "B">>>>, 5) \o Repeat(<<<<"B">>>>, 10)
                   \o Repeat(<<<<"A", "B">>>>, 7)
    /\ self.seats = 1

\* C34: the steps that find and eliminate the candidates of a round change
\* no working ballot; and in the count of the round after an elimination an
\* active ballot whose preference was eliminated keeps its vote value and
\* is counted, with that value, for the first candidate after it that is
\* neither elected nor eliminated, or is set aside as exhausted when it
\* ranks no such candidate, the votes of each candidate being the vote
\* values of the ballots counted for it.  In the election of 5 ballots
\* [A, C], 10 ballots [B] and 7 ballots [C] for 1 seat, A is eliminated and
\* the next round counts B = 10 and C = 12 and elects C.
EliminationKeepsWeight ==
    /\ [][((pc = "counted" /\ pc' # "counted" /\ ~Electing
              /\ ~(Cardinality(TrackerCandidates(vote_tracker)) <= seats_vacant))
           \/ (Eliminating /\ pc # "forward_loop")) =>
             \A r \in WorkingCopies : heap'[r] = heap[r]]_vars
    /\ [][(/\ pc = "loop"
           /\ current_round >= 1
           /\ round(current_round).candidates_eliminated # {}
           /\ Len(election_rounds') > Len(election_rounds)) =>
             /\ \A r \in Range(ballots_active) :
                   preferred_active_candidate(heap[r])
                       \in round(current_round).candidates_eliminated =>
                       LET next == NextPreference(
                                       heap[r],
                                       candidates_elected \cup candidates_eliminated)
                       IN  /\ heap'[r].vote_value = heap[r].vote_value
                           /\ IF next = None
                              THEN /\ r \in Range(ballots_exhausted')
                                   /\ r \notin Range(ballots_active')
                              ELSE /\ r \in Range(ballots_active')
                                   /\ preferred_active_candidate(heap'[r]) = next
                                   /\ r \in Range(ballots_for_candidate'[next])
             /\ \A c \in DOMAIN ballots_for_candidate' :
                   votes_for_candidate(
                       election_rounds'[Len(election_rounds')].vote_tracker, c)
                       = WeightIn(heap', ballots_for_candidate'[c], 1)]_vars
    /\ []((ThreeCandidatesOneSeat /\ pc = "done") =>
            /\ current_round = 2
            /\ round(1).candidates_eliminated = {<<"A">>}
            /\ round(2).vote_tracker.votes_for_candidate
                   = [c \in {<<"B">>, <<"A", "B">>} |->
                         IF c = <<"B">> THEN Num(10) ELSE Num(12)]
            /\ candidates_elected = {<<"A", "B">>})

\* The count after an elimination has counted a ballot for the preference
\* after the eliminated one and set aside a ballot that ranked the
\* eliminated candidate last.
EliminationKeepsWeightWitness ==
    /\ pc = "counted"
    /\ current_round >= 2
    /\ round(current_round - 1).candidates_eliminated # {}
    /\ \E r \in Range(ballots_active) :
          /\ heap[r].preferred_active_rank >= 1
          /\ heap[r].candidates[heap[r].preferred_active_rank]
                 \in round(current_round - 1).candidates_eliminated
    /\ \E r \in Range(ballots_to_exhaust) :
          /\ Less(Num(0), heap[r].vote_value)
          /\ heap[r].candidates # <<>>
          /\ heap[r].candidates[Len(heap[r].candidates)]
                 \in round(current_round - 1).candidates_eliminated

\* ------------------------------------------------- the decided candidates
\* C35: no candidate is both elected and eliminated; no step removes a
\* candidate from the elected or from the eliminated; the sets of
\* candidates that the rounds elected and eliminated are pairwise
\* disjoint; and a candidate elected or eliminated by a round is in the
\* tally of no later round.
DecidedOnce ==
    /\ [](/\ candidates_elected \cap candidates_eliminated = {}
          /\ \A i \in 1..current_round :
                /\ round(i).candidates_elected \cap round(i).candidates_eliminated = {}
                /\ \A j \in (i + 1)..current_round :
                      /\ DecidedIn(i) \cap DecidedIn(j) = {}
                      /\ DecidedIn(i) \cap TrackerCandidates(round(j).vote_tracker) = {})
    /\ [][/\ candidates_elected \subseteq candidates_elected'
          /\ candidates_eliminated \subseteq candidates_eliminated']_vars

\* A third or later round has been counted, after a round that elected
\* and a round that eliminated, for a ballot that ranks a decided candidate
\* before the candidate it counts for.
DecidedOnceWitness ==
    /\ pc = "counted"
    /\ current_round >= 3
    /\ candidates_elected # {}
    /\ candidates_eliminated # {}
    /\ \E r \in Range(ballots_active) :
          /\ heap[r].preferred_active_rank >= 1
          /\ heap[r].candidates[heap[r].preferred_active_rank]
                 \in candidates_elected \cup candidates_eliminated

\* ------------------------------------------------ the candidates tallied
\* The ballots that were active when the current round began: those still
\* active and those the round set aside.
ActiveAtStart == Range(ballots_active) \cup Range(ballots_to_exhaust)

\* The candidates decided before the current round.
DecidedBefore == UNION {DecidedIn(j) : j \in 1..(current_round - 1)}

\* The candidates not decided before the current round that a ballot
\* active at its start ranks, at whatever rank.
Standing ==
    UNION {Range(heap[r].candidates) : r \in ActiveAtStart} \ DecidedBefore

ProperPrefix(a, b) == Len(a) < Len(b) /\ SubSeq(b, 1, Len(a)) = a

\* The sort key of a is below that of b.
KeyLess(a, b) == ListLess(SortKey(a), SortKey(b))

\* C37: when the tie-break string holds every character of the uids of the
\* tied candidates, the order of their sort keys is a strict total order:
\* of two different candidates exactly one has the lower key, never both
\* the same key, the order is transitive, and a uid that is a proper prefix
\* of another comes first; the sorted list is the same for every order of
\* iterating the tied set, and the candidate eliminated is the candidate
\* other than No Confidence with the lowest key.
SortIsStrictTotalOrder ==
    /\ []((pc = "random" /\ CanSort) =>
            /\ \A a, b \in candidates_to_eliminate :
                  /\ ~KeyLess(a, a)
                  /\ a # b =>
                        /\ SortKey(a) # SortKey(b)
                        /\ KeyLess(a, b) # KeyLess(b, a)
                        /\ ProperPrefix(a, b) => KeyLess(a, b)
                  /\ \A c \in candidates_to_eliminate :
                        (KeyLess(a, b) /\ KeyLess(b, c)) => KeyLess(a, c)
            /\ Cardinality({Sorted(order) :
                               order \in Orders(candidates_to_eliminate)}) = 1)
    /\ [][(pc = "random" /\ CanSort) =>
             \E a \in candidates_to_eliminate \ {NoConfidence} :
                 /\ candidates_to_eliminate' = {a}
                 /\ \A b \in candidates_to_eliminate \ {NoConfidence, a} :
                       KeyLess(a, b)]_vars

\* The random tie-break has chosen the candidate of uid "A", under a string
\* that repeats a character and has the character B before the character
\* A, so that the candidate of uid "AB" or No Confidence was tied with it.
SortIsStrictTotalOrderWitness ==
    /\ pc = "eliminate"
    /\ random_tiebreak_occurred
    /\ candidates_to_eliminate = {<<"A">>}
    /\ Index(tiebreak_alphanumeric, "B") # -1
    /\ Index(tiebreak_alphanumeric, "B") < Index(tiebreak_alphanumeric, "A")
    /\ \E i, j \in 1..Len(tiebreak_alphanumeric) :
          i # j /\ tiebreak_alphanumeric[i] = tiebreak_alphanumeric[j]

\* ------------------------------------------- a character not in the string
\* The uid of a tied candidate has a character that the tie-break string
\* does not hold.
CharacterMissing ==
    \E candidate \in candidates_to_eliminate :
        \E k \in 1..Len(candidate) :
            \A j \in 1..Len(tiebreak_alphanumeric) :
                tiebreak_alphanumeric[j] # candidate[k]

Spinning ==
    /\ stv.pc = "update"
    /\ stv_preferred_active_candidate(declaring.updated_ballot) = NO_CONFIDENCE
    /\ NO_CONFIDENCE \in counter.winning_candidates

\* C39: compute_winners of stv_compute.py, with random final tie-breaks,
\* returns for every list of ballots and number of seats, whatever the
\* order in which the candidates that reach the quota in one round are
\* declared winners.
StvTerminates == <>(stv.pc = "returned")

=============================================================================
